---- MODULE Spec2Model ----
(***************************************************************************)
(* Model of the retrieval pipeline of backend/app/services/rag_service.py  *)
(* (class RAGService) together with the relational store it reads through *)
(* DatabaseService.get_all_patients.                                       *)
(*                                                                         *)
(* Texts are sequences of one-character strings; the fixed label strings   *)
(* of _create_patient_text and of the context block are single tokens.     *)
(* Cosine distances and similarity scores are integers counting halves:    *)
(* ONE stands for 1.0 and DefaultDistance for 0.5.                         *)
(* An operation that can raise returns [ok, val]; a try/except is an IF    *)
(* on the ok field.  The RAGService coroutines contain no suspension       *)
(* point, so each call is one atomic action; its return value is kept in   *)
(* resp until the caller takes it (Return).                                *)
(*                                                                         *)
(* Spec is the service with all its operations.  The helpers are also run  *)
(* on their own: SpecChunk steps through the loop of _chunk_text,          *)
(* SpecEmbed applies _embed_texts to every shape of remote answer,         *)
(* SpecSanitize applies _sanitize_metadata, and SpecService starts from    *)
(* the environment __init__ finds.  call holds the helper call (or the     *)
(* construction record) of these specifications.                           *)
(*                                                                         *)
(* SpecAttach adds the chat attachments of one RAGService object           *)
(* (chat_contexts) and the endpoints that use them, each on the object     *)
(* get_rag_service builds for the request.  SpecContext is the             *)
(* ChatContextService of the process (sessions, file_processing_cache)     *)
(* with its methods, SpecChat the /chat endpoint on top of it.  The        *)
(* response of an endpoint stays in resp when the next request is taken.   *)
(***************************************************************************)
EXTENDS Integers, Sequences, FiniteSets, TLC

VARIABLES provider, db, collection, staging_collection, resp, call,
          chat_contexts, sessions, file_processing_cache

vars == <<provider, db, collection, staging_collection, resp, call,
          chat_contexts, sessions, file_processing_cache>>

(* the in-memory chat state: RAGService.chat_contexts of one service object, *)
(* ChatContextService.chat_contexts and ChatContextService.file_processing_cache *)
chat == <<chat_contexts, sessions, file_processing_cache>>

-----------------------------------------------------------------------------
(* Bounds of the model *)

MaxPatients == 2

MaxTopK == 2

EmbedMod == 5

MaxTextLen == 4

MaxChunkSize == 3

MaxOverlap == 3

MaxChunks == 6

MaxBatch == 2

(* Program constants *)

ONE == 2

DefaultDistance == 1

RagTopK == 8

ChunkSizeDefault == 800

OverlapDefault == 100

-----------------------------------------------------------------------------
(* Values *)

Min(a, b) == IF a < b THEN a ELSE b

Max(a, b) == IF a > b THEN a ELSE b

Abs(a) == IF a < 0 THEN 0 - a ELSE a

NoneT == <<"<None>">>

NoBatch == "<None>"

None == "<None>"

Truthy_NoneOnly(s) == s # NoBatch

(* the truth value of an optional string: None and "" are false *)
Truthy(s) == s # NoBatch /\ s # ""

TruthyText(t) == t # NoneT /\ t # <<>>

OrEmpty(t) == IF t = NoneT THEN <<>> ELSE t

Ok(v) == [ok |-> TRUE, val |-> v]

Raise == [ok |-> FALSE, val |-> <<>>]

Take(s, k) == SubSeq(s, 1, Min(k, Len(s)))

RECURSIVE Flatten(_)
Flatten(ss) == IF ss = <<>> THEN <<>> ELSE Head(ss) \o Flatten(Tail(ss))

RECURSIVE JoinWith(_, _)
JoinWith(sep, parts) ==
    IF parts = <<>> THEN <<>>
    ELSE IF Len(parts) = 1 THEN parts[1]
    ELSE parts[1] \o sep \o JoinWith(sep, Tail(parts))

NonEmptyParts(parts) == SelectSeq(parts, LAMBDA t : t # <<>>)

LowerChar(c) == IF c = "A" THEN "a" ELSE IF c = "B" THEN "b" ELSE c

Lower(t) == [i \in 1..Len(t) |-> LowerChar(t[i])]

IsSubstring(q, h) ==
    \E i \in 0..(Len(h) - Len(q)) : SubSeq(h, i + 1, i + Len(q)) = q

(* Metadata values carry the Python type the isinstance test looks at. *)
MStr(s) == [kind |-> "str", val |-> s]

MInt(n) == [kind |-> "int", val |-> ToString(n)]

MObj(j) == [kind |-> "list", val |-> j]

MetaGet(m, k, d) == IF k \in DOMAIN m THEN m[k].val ELSE d

Merge(m1, m2) ==
    [k \in (DOMAIN m1) \cup (DOMAIN m2) |-> IF k \in DOMAIN m2 THEN m2[k] ELSE m1[k]]

EmptyMeta == [k \in {} |-> MStr("")]

-----------------------------------------------------------------------------
(* Inputs the environment draws from *)

Providers == {"Local", "Remote", "Unavailable"}

PatientIds == <<"p1", "p2", "p3", "p4">>

PatientInputs ==
    { [name |-> <<"A">>, date_of_birth |-> <<"b">>, diagnosis |-> NoneT, prescription |-> NoneT],
      [name |-> <<"a", "b">>, date_of_birth |-> <<"b">>, diagnosis |-> <<"b">>, prescription |-> <<"a">>] }

Queries == { <<"A">>, <<"a", " ", "b">>, <<"b", "b">> }

Batches == {"B1", "B2"}

BatchArgs == {NoBatch, ""} \cup Batches

StagingInputs ==
    { [text |-> <<"a">>, metadata |-> [document_types |-> MObj("[]")]],
      [text |-> <<"b", "b">>, metadata |-> EmptyMeta] }

FailurePoints == {"embed", "staging", "durable", "db", "llm"}

SearchFailures ==
    {{}, {"embed"}, {"staging"}, {"durable"}, {"db"},
     {"embed", "db"}, {"staging", "durable"}, FailurePoints \ {"llm"}}

RagFailures == {{}, {"embed"}, {"staging"}, {"durable"}, {"db"}, {"llm"}}

-----------------------------------------------------------------------------------------------------------------------------------------------------
(* ChunkSplitter: RAGService._chunk_text *)

CtrlChars == {"\\x01"}

SpaceChars == {" ", "\n", "\t"}

SubCtrl(t) == [i \in 1..Len(t) |-> IF t[i] \in CtrlChars THEN " " ELSE t[i]]

RECURSIVE LStrip(_)
LStrip(t) == IF t # <<>> /\ Head(t) \in SpaceChars THEN LStrip(Tail(t)) ELSE t

RECURSIVE RStrip(_)
RStrip(t) ==
    IF t # <<>> /\ t[Len(t)] \in SpaceChars THEN RStrip(SubSeq(t, 1, Len(t) - 1)) ELSE t

Strip(t) == RStrip(LStrip(t))

SafeText_NoStrip(text) == SubCtrl(OrEmpty(text))

(* re.sub(r"[\x00-\x08\x0b\x0c\x0e-\x1f]", " ", text or "").strip() *)
SafeText(text) == Strip(SubCtrl(OrEmpty(text)))

(* end = min(start + chunk_size, length) *)
WindowEnd_Short(start, chunk_size, length) == Min(start + chunk_size - 1, length)

(* end = min(start + chunk_size, length) *)
WindowEnd(start, chunk_size, length) == Min(start + chunk_size, length)

NextStart_OffByOne(end, overlap) == Max(0, end - overlap + 1)

(* start = max(0, end - overlap) *)
NextStart(end, overlap) == Max(0, end - overlap)

(* one iteration of the while loop, from the window [start, end) on *)
RECURSIVE ChunkLoop(_, _, _, _, _)
ChunkWindow(safe_text, start, end, chunk_size, overlap, chunks) ==
    IF end = Len(safe_text) THEN Append(chunks, SubSeq(safe_text, start + 1, end))
    ELSE ChunkLoop(safe_text, NextStart(end, overlap), chunk_size, overlap,
                   Append(chunks, SubSeq(safe_text, start + 1, end)))

ChunkLoop(safe_text, start, chunk_size, overlap, chunks) ==
    IF ~(start < Len(safe_text)) THEN chunks
    ELSE ChunkWindow(safe_text, start, WindowEnd(start, chunk_size, Len(safe_text)),
                     chunk_size, overlap, chunks)

ChunkSafeText(safe_text, chunk_size, overlap) ==
    IF safe_text = <<>> THEN <<>>
    ELSE ChunkLoop(safe_text, 0, chunk_size, overlap, <<>>)

ChunkText(text, chunk_size, overlap) ==
    ChunkSafeText(SafeText(text), chunk_size, overlap)

-----------------------------------------------------------------------------
(* EmbeddingProvider: RAGService._embed_texts *)

CharCode(c) ==
    IF c = "a" THEN 1 ELSE IF c = "b" THEN 2 ELSE IF c = "A" THEN 3 ELSE 0

RECURSIVE CodeSum(_)
CodeSum(t) == IF t = <<>> THEN 0 ELSE CharCode(Head(t)) + CodeSum(Tail(t))

(* the deterministic embedding model: one vector per text *)
EmbedVec(t) == CodeSum(t) % EmbedMod

(* self.encoder / self.remote_embedder as set by __init__ *)
EncoderLoaded == provider = "Local"

RemoteEmbedder == provider = "Remote"

ProviderAvailable_Always == TRUE

(* not (self.encoder is None and self.remote_embedder is None) *)
ProviderAvailable == ~(~EncoderLoaded /\ ~RemoteEmbedder)

(* the vectors of the texts, one per text, in order *)
VectorsOf(texts) == [i \in 1..Len(texts) |-> EmbedVec(texts[i])]

(* What genai.embed_content answers.  A payload of depth 1 is one bare     *)
(* vector (a list of numbers), of depth 2 a list of vectors; it sits under *)
(* the key or attribute `key` of a dict or of an object.                   *)
Payload(depth, items) == [depth |-> depth, items |-> items]

Response(holder, key, payload) == [holder |-> holder, key |-> key, payload |-> payload]

(* the call raises / the answer has neither name *)
ApiError == Response("error", "", Payload(0, <<>>))

Unexpected == Response("object", "", Payload(0, <<>>))

(* one vector per text; a bare vector only for a single text *)
Payloads(texts) ==
    {Payload(2, VectorsOf(texts))}
    \cup (IF Len(texts) = 1 THEN {Payload(1, VectorsOf(texts))} ELSE {})

Responses(texts) ==
    {Response(holder, key, payload) :
        holder \in {"dict", "object"}, key \in {"embeddings", "embedding"},
        payload \in Payloads(texts)}
    \cup {ApiError, Unexpected}

(* [x]: a list around the payload *)
Wrap(payload) == [payload EXCEPT !.depth = @ + 1]

(* line 104, [list(map(float, v)) for v in vectors]: float() raises unless *)
(* every v is a list of numbers                                            *)
FloatVectors(vectors) == IF vectors.depth = 2 THEN Ok(vectors.items) ELSE Raise

ObjectVectors_FirstOnly(payload) ==
    IF payload.depth = 1 THEN Wrap(payload) ELSE [payload EXCEPT !.items = Take(@, 1)]

(* lines 102-103: if not isinstance(vectors[0], (list, tuple)): vectors = [vectors] *)
ObjectVectors(payload) == IF payload.depth = 1 THEN Wrap(payload) ELSE payload

(* lines 91-106: the try block of the remote branch; every raise in it is  *)
(* caught at line 105 and ends in the RuntimeError of line 107             *)
RemoteVectors(result) ==
    IF result.holder = "error" THEN Raise
    ELSE IF result.holder = "dict" /\ result.key = "embeddings"
    THEN FloatVectors(result.payload)
    ELSE IF result.holder = "dict" /\ result.key = "embedding"
    THEN FloatVectors(Wrap(result.payload))
    ELSE IF result.key = "" THEN Raise
    ELSE FloatVectors(ObjectVectors(result.payload))

(* RAGService._embed_texts; fail: the local encoder raises, result: the    *)
(* answer of the remote API                                                *)
EmbedTextsWith(texts, fail, result) ==
    IF EncoderLoaded THEN
        IF fail THEN Raise ELSE Ok(VectorsOf(texts))
    ELSE IF RemoteEmbedder THEN RemoteVectors(result)
    ELSE Raise

(* a remote answer the service can use *)
GoodResponse(texts) == Response("dict", "embeddings", Payload(2, VectorsOf(texts)))

(* _embed_texts inside the service operations: either it fails or the      *)
(* remote API answers with a list of vectors under 'embeddings'            *)
EmbedTexts(texts, fail) ==
    EmbedTextsWith(texts, fail, IF fail THEN ApiError ELSE GoodResponse(texts))

-----------------------------------------------------------------------------
(* RAGService._create_patient_text and RAGService._sanitize_metadata *)

TextPart(label, v) == IF TruthyText(v) THEN << <<label>> \o v >> ELSE <<>>

CreatePatientText(patient_data, raw_text) ==
    JoinWith(<<" | ">>,
             TextPart("Patient Name: ", patient_data.name)
             \o TextPart("Date of Birth: ", patient_data.date_of_birth)
             \o TextPart("Diagnosis: ", patient_data.diagnosis)
             \o TextPart("Prescription: ", patient_data.prescription)
             \o TextPart("Details: ", raw_text))

ScalarKinds_WithList == {"str", "int", "float", "bool", "none", "list"}

(* isinstance(v, (str, int, float, bool)) or v is None *)
ScalarKinds == {"str", "int", "float", "bool", "none"}

SanitizeMetadata(metadata) ==
    [k \in DOMAIN metadata |->
        IF metadata[k].kind \in ScalarKinds THEN metadata[k]
        ELSE MStr(metadata[k].val)]

-----------------------------------------------------------------------------
(* VectorIndex: the store behind self.collection / self.staging_collection *)

Distance(u, v) == Min(Abs(u - v), 2 * ONE)

IdsOf(coll) == {coll[i].id : i \in 1..Len(coll)}

CollectionAdd_Upsert(coll, entries) ==
    SelectSeq(coll, LAMBDA e : e.id \notin IdsOf(entries)) \o entries

(* collection.add: a record whose id is already stored is left alone *)
CollectionAdd(coll, entries) ==
    coll \o SelectSeq(entries, LAMBDA e : e.id \notin IdsOf(coll))

(* the entries of coll, nearest to the query embedding first *)
ByDistance(coll, query_embedding) ==
    Flatten([i \in 1..(2 * ONE + 1) |->
        SelectSeq(coll, LAMBDA e : Distance(query_embedding, e.embedding) = i - 1)])

QueryAnswer(nearest, query_embedding) ==
    [documents |-> [i \in 1..Len(nearest) |-> nearest[i].document],
     metadatas |-> [i \in 1..Len(nearest) |-> nearest[i].metadata],
     distances |-> [i \in 1..Len(nearest) |->
                       Distance(query_embedding, nearest[i].embedding)]]

(* collection.query(include=[documents, metadatas, distances]) for one    *)
(* query embedding: the n_results nearest entries, nearest first, as the  *)
(* three parallel lists of the store's answer                             *)
CollectionQuery(coll, query_embedding, n_results) ==
    QueryAnswer(Take(ByDistance(coll, query_embedding), n_results), query_embedding)

(* chunks = self._chunk_text(text); if not chunks: chunks = [text] *)
ChunksOr(split, text) == IF split = <<>> THEN <<text>> ELSE split

ChunksOf(text) == ChunksOr(ChunkText(text, ChunkSizeDefault, OverlapDefault), text)

PatientBaseMeta(patient_data) ==
    [patient_id |-> MStr(patient_data.id),
     name |-> MStr(patient_data.name),
     date_of_birth |-> MStr(patient_data.date_of_birth),
     type |-> MStr("patient_record")]

PatientEntries(patient_data, chunks, embeddings) ==
    [i \in 1..Len(chunks) |->
        [id |-> <<"patient", patient_data.id, i - 1>>,
         document |-> chunks[i],
         metadata |-> SanitizeMetadata(
             Merge(PatientBaseMeta(patient_data), [chunk_index |-> MInt(i - 1)])),
         embedding |-> embeddings[i]]]

AddPatientEmbedded(coll, patient_data, chunks, embeddings) ==
    IF ~embeddings.ok THEN Raise
    ELSE Ok(CollectionAdd(coll, PatientEntries(patient_data, chunks, embeddings.val)))

AddPatientChunks(coll, patient_data, chunks, fail) ==
    AddPatientEmbedded(coll, patient_data, chunks, EmbedTexts(chunks, fail))

(* RAGService.add_patient_to_vector_store on the durable collection coll: *)
(* the new durable collection, or a raise                                 *)
AddPatientInto(coll, patient_data, raw_text, fail) ==
    IF ~ProviderAvailable THEN Ok(coll)
    ELSE AddPatientChunks(coll, patient_data,
                          ChunksOf(CreatePatientText(patient_data, raw_text)), fail)

AddPatientToVectorStore(patient_data, raw_text, fail) ==
    AddPatientInto(collection, patient_data, raw_text, fail)

StagingBaseMeta(upload_batch_id) ==
    [type |-> MStr("staging_document"), upload_batch_id |-> MStr(upload_batch_id)]

StagingEntries(upload_batch_id, safe_extra, chunks, embeddings) ==
    [i \in 1..Len(chunks) |->
        [id |-> <<"staging", upload_batch_id, i - 1>>,
         document |-> chunks[i],
         metadata |-> SanitizeMetadata(
             Merge(Merge(StagingBaseMeta(upload_batch_id), safe_extra),
                   [chunk_index |-> MInt(i - 1)])),
         embedding |-> embeddings[i]]]

AddStagingEmbedded(upload_batch_id, metadata, chunks, embeddings) ==
    IF ~embeddings.ok THEN Raise
    ELSE Ok(CollectionAdd(staging_collection,
            StagingEntries(upload_batch_id, SanitizeMetadata(metadata), chunks, embeddings.val)))

AddStagingChunks(upload_batch_id, metadata, chunks, fail) ==
    AddStagingEmbedded(upload_batch_id, metadata, chunks, EmbedTexts(chunks, fail))

(* RAGService.add_staging_documents: the new staging collection, or a raise *)
AddStagingDocuments(upload_batch_id, text, metadata, fail) ==
    IF ~ProviderAvailable THEN Ok(staging_collection)
    ELSE AddStagingChunks(upload_batch_id, metadata, ChunksOf(text), fail)

-----------------------------------------------------------------------------
(* RetrievalFallbackEngine *)

(* the hits built from the three parallel lists of the store's answer *)
HitsOf(documents, metadatas, distances) ==
    [i \in 1..Len(documents) |->
        [content |-> documents[i],
         metadata |-> IF i <= Len(metadatas) THEN metadatas[i] ELSE EmptyMeta,
         similarity_score |->
             ONE - (IF i <= Len(distances) THEN distances[i] ELSE DefaultDistance)]]

HitsOfAnswer(results) == HitsOf(results.documents, results.metadatas, results.distances)

(* RAGService._query_collection: hits of one index, or a raise of the store *)
QueryCollection(coll, query_embedding, top_k, fail) ==
    IF fail THEN Raise
    ELSE Ok(HitsOfAnswer(CollectionQuery(coll, query_embedding, top_k)))

(* DatabaseService.get_all_patients: newest first *)
GetAllPatients(fail) == IF fail THEN Raise ELSE Ok(db)

Hay_NoSeparator(p) ==
    Flatten(<<p.name, p.date_of_birth, OrEmpty(p.diagnosis), OrEmpty(p.prescription)>>)

(* " ".join(filter(None, [name, date_of_birth, diagnosis or "", prescription or ""])) *)
Hay(p) ==
    JoinWith(<<" ">>, NonEmptyParts(
        <<p.name, p.date_of_birth, OrEmpty(p.diagnosis), OrEmpty(p.prescription)>>))

(* score = 1.0 if q in hay.lower() else 0.0 *)
Score(p, q) == IF IsSubstring(q, Lower(Hay(p))) THEN ONE ELSE 0

FallbackHit(p, score) ==
    [content |-> CreatePatientText(p, NoneT),
     metadata |-> [patient_id |-> MStr(p.id), name |-> MStr(p.name),
                   type |-> MStr("patient_record")],
     similarity_score |-> score]

ScoredHits(matching, q) ==
    [i \in 1..Len(matching) |-> FallbackHit(matching[i], Score(matching[i], q))]

(* the records with a positive score, each as a hit, in scan order *)
Scored(all_patients, q) ==
    ScoredHits(SelectSeq(all_patients, LAMBDA p : Score(p, q) > 0), q)

(* sorted(scored, key=similarity_score, reverse=True): stable, scores are 1.0 or 0.0 *)
SortedByScore(scored) ==
    SelectSeq(scored, LAMBDA h : h.similarity_score = ONE)
    \o SelectSeq(scored, LAMBDA h : h.similarity_score # ONE)

ScanPatients(all_patients, q, top_k) ==
    IF ~all_patients.ok THEN <<>>
    ELSE Take(SortedByScore(Scored(all_patients.val, q)), top_k)

(* RAGService._sql_fallback *)
SqlFallback(query, top_k, fail) == ScanPatients(GetAllPatients(fail), Lower(query), top_k)

Trace(raised, result, embedCalled, stagingQueried, durableQueried, fallbackRun) ==
    [raised |-> raised, result |-> result, embedCalled |-> embedCalled,
     stagingQueried |-> stagingQueried, durableQueried |-> durableQueried,
     fallbackRun |-> fallbackRun]

MergeHits_DurableFirst(staging_hits, patient_hits) == patient_hits \o staging_hits

(* results.extend(staging_hits); results.extend(patient_hits) *)
MergeHits(staging_hits, patient_hits) == staging_hits \o patient_hits

NeedsFallback_Always(results) == TRUE

(* if not results *)
NeedsFallback(results) == results = <<>>

(* lines 225-227: the fallback when the merge is empty, then results[:top_k] *)
SearchMerged(query, top_k, upload_batch_id, fails, results) ==
    Trace(FALSE,
          Take(IF NeedsFallback(results) THEN SqlFallback(query, top_k, "db" \in fails)
               ELSE results, top_k),
          TRUE, Truthy(upload_batch_id), TRUE, NeedsFallback(results))

(* lines 222-223: the durable query has been made *)
SearchQueried(query, top_k, upload_batch_id, fails, staging_hits, patient_hits) ==
    IF ~patient_hits.ok
    THEN Trace(TRUE, <<>>, TRUE, Truthy(upload_batch_id), TRUE, FALSE)
    ELSE SearchMerged(query, top_k, upload_batch_id, fails,
                      MergeHits(staging_hits, patient_hits.val))

(* lines 218-220: the staging query has been made, if a batch id was given *)
SearchStaged(query, top_k, upload_batch_id, fails, query_embedding, staging_hits) ==
    IF ~staging_hits.ok
    THEN Trace(TRUE, <<>>, TRUE, TRUE, FALSE, FALSE)
    ELSE SearchQueried(query, top_k, upload_batch_id, fails, staging_hits.val,
                       QueryCollection(collection, query_embedding, top_k, "durable" \in fails))

(* line 215: the query has been embedded *)
SearchEmbedded(query, top_k, upload_batch_id, fails, embedded) ==
    IF ~embedded.ok
    THEN Trace(TRUE, <<>>, TRUE, FALSE, FALSE, FALSE)
    ELSE SearchStaged(query, top_k, upload_batch_id, fails, embedded.val[1],
             IF Truthy(upload_batch_id)
             THEN QueryCollection(staging_collection, embedded.val[1], top_k,
                                  "staging" \in fails)
             ELSE Ok(<<>>))

(* the try block of RAGService.search_similar_patients *)
SearchBody(query, top_k, upload_batch_id, fails) ==
    IF ~ProviderAvailable
    THEN Trace(FALSE, SqlFallback(query, top_k, "db" \in fails), FALSE, FALSE, FALSE, TRUE)
    ELSE SearchEmbedded(query, top_k, upload_batch_id, fails,
                        EmbedTexts(<<query>>, "embed" \in fails))

(* except Exception: return [] *)
SearchCatch(body) ==
    IF body.raised THEN [body EXCEPT !.raised = FALSE, !.result = <<>>] ELSE body

SearchSimilarPatients_NoCatch(query, top_k, upload_batch_id, fails) ==
    SearchBody(query, top_k, upload_batch_id, fails)

(* RAGService.search_similar_patients *)
SearchSimilarPatients(query, top_k, upload_batch_id, fails) ==
    SearchCatch(SearchBody(query, top_k, upload_batch_id, fails))

-----------------------------------------------------------------------------
(* ContextAssembler and generation: RAGService.generate_rag_response *)

ContextRecord_ZeroBased(i, p) ==
    <<"Record ", ToString(i - 1), " (", MetaGet(p.metadata, "type", "unknown"), "): ">>
    \o p.content

(* f"Record {i+1} ({p['metadata'].get('type', 'unknown')}): {p['content']}" *)
ContextRecord(i, p) ==
    <<"Record ", ToString(i), " (", MetaGet(p.metadata, "type", "unknown"), "): ">>
    \o p.content

AssembleContext(similar_patients) ==
    JoinWith(<<"\n\n">>,
             [i \in 1..Len(similar_patients) |-> ContextRecord(i, similar_patients[i])])

LlmApology == "I'm sorry, I encountered an error while processing your request."

(* GeminiService.generate_chat_response: a failing model call is answered by an apology *)
GenerateChatResponse(query, context, fail) ==
    IF fail THEN Ok(LlmApology) ELSE Ok("answer")

RagErrorValue ==
    [response |-> LlmApology, sources |-> <<>>, patient_ids |-> <<>>, context_used |-> 0]

RagError(llmCalled, context, hits) ==
    [raised |-> TRUE, llmCalled |-> llmCalled, context |-> context, hits |-> hits,
     value |-> RagErrorValue]

(* [p['metadata'].get(key, '') for p in similar_patients if p['metadata'].get(key)] *)
MetaValues(hits, key, empty) ==
    [i \in 1..Len(hits) |-> MetaGet(hits[i].metadata, key, empty)]

PresentValues(hits, key, empty) ==
    MetaValues(SelectSeq(hits, LAMBDA p : MetaGet(p.metadata, key, empty) # empty), key, empty)

(* lines 271-278 *)
RagAnswered(similar_patients, context, response) ==
    IF ~response.ok THEN RagError(TRUE, context, similar_patients)
    ELSE [raised |-> FALSE, llmCalled |-> TRUE, context |-> context, hits |-> similar_patients,
          value |-> [response |-> response.val,
                     sources |-> PresentValues(similar_patients, "name", <<>>),
                     patient_ids |-> PresentValues(similar_patients, "patient_id", ""),
                     context_used |-> Len(similar_patients)]]

(* line 270 *)
RagWithContext(query, fails, similar_patients, context) ==
    RagAnswered(similar_patients, context,
                GenerateChatResponse(query, context, "llm" \in fails))

(* lines 266-269 *)
RagSearched(query, fails, search) ==
    IF search.raised THEN RagError(FALSE, <<>>, <<>>)
    ELSE RagWithContext(query, fails, search.result, AssembleContext(search.result))

(* the try block of RAGService.generate_rag_response *)
RagBody(query, upload_batch_id, fails) ==
    RagSearched(query, fails, SearchSimilarPatients(query, RagTopK, upload_batch_id, fails))

(* except Exception: return the error response *)
RagCatch(body) ==
    IF body.raised THEN [body EXCEPT !.raised = FALSE, !.value = RagErrorValue] ELSE body

(* RAGService.generate_rag_response *)
GenerateRagResponse(query, upload_batch_id, fails) ==
    RagCatch(RagBody(query, upload_batch_id, fails))

-----------------------------------------------------------------------------
(* Rebuild of the durable index: RAGService.refresh_vector_store *)

(* how a refresh ends: whether it raised, and the durable collection it leaves *)
Refreshed(raised, coll) == [raised |-> raised, collection |-> coll]

RECURSIVE RefreshLoop(_, _, _, _)
RefreshAdded_StopAfterOne(added, coll, patients, i, fail_at) ==
    IF ~added.ok THEN Refreshed(TRUE, coll) ELSE Refreshed(FALSE, added.val)

(* line 310 has run for patients[i]; the raise of the add leaves the loop *)
RefreshAdded(added, coll, patients, i, fail_at) ==
    IF ~added.ok THEN Refreshed(TRUE, coll)
    ELSE RefreshLoop(added.val, patients, i + 1, fail_at)

(* for patient in patients: await self.add_patient_to_vector_store(patient_dict) *)
RefreshLoop(coll, patients, i, fail_at) ==
    IF i > Len(patients) THEN Refreshed(FALSE, coll)
    ELSE RefreshAdded(AddPatientInto(coll, patients[i], NoneT, i = fail_at),
                      coll, patients, i, fail_at)

RefreshFrom_DropOnly(all_patients, fail_at) == Refreshed(~all_patients.ok, <<>>)

(* lines 293-311: the collection is dropped and recreated empty, then filled *)
(* from the rows of the relational store                                     *)
RefreshFrom(all_patients, fail_at) ==
    IF ~all_patients.ok THEN Refreshed(TRUE, <<>>)
    ELSE RefreshLoop(<<>>, all_patients.val, 1, fail_at)

(* RAGService.refresh_vector_store; fail_db: get_all_patients raises,        *)
(* fail_at: the embedding call for the fail_at-th patient raises             *)
RefreshVectorStore(fail_db, fail_at) == RefreshFrom(GetAllPatients(fail_db), fail_at)

-----------------------------------------------------------------------------
(* State machine *)

Idle == [op |-> "idle"]

(* call holds the helper call under examination; no helper is examined   *)
(* while the service operations run                                       *)
NoCall == [op |-> "none"]

(* refresh_vector_store, the only caller, passes no raw_text *)
RawTexts == {NoneT}

Init ==
    /\ chat_contexts = <<>>
    /\ sessions = <<>>
    /\ file_processing_cache = <<>>
    /\ provider \in Providers
    /\ db = <<>>
    /\ collection = <<>>
    /\ staging_collection = <<>>
    /\ resp = Idle
    /\ call = NoCall

NewPatient(id, input) ==
    [id |-> id, name |-> input.name, date_of_birth |-> input.date_of_birth,
     diagnosis |-> input.diagnosis, prescription |-> input.prescription]

(* DatabaseService.create_patient: a new row, first in created_at-descending order *)
CreatePatient(input) ==
    /\ resp = Idle
    /\ Len(db) < MaxPatients
    /\ db' = <<NewPatient(PatientIds[Len(db) + 1], input)>> \o db
    /\ UNCHANGED <<provider, collection, staging_collection, resp, call, chat>>

AddResp(op, r) == [op |-> op, raised |-> ~r.ok]

AddPatientDone(r) ==
    /\ collection' = IF r.ok THEN r.val ELSE collection
    /\ resp' = AddResp("add_patient", r)

AddPatient(i, raw_text, fail) ==
    /\ resp = Idle
    /\ i \in 1..Len(db)
    /\ AddPatientDone(AddPatientToVectorStore(db[i], raw_text, fail))
    /\ UNCHANGED <<provider, db, staging_collection, call, chat>>

AddStagingDone(r) ==
    /\ staging_collection' = IF r.ok THEN r.val ELSE staging_collection
    /\ resp' = AddResp("add_staging", r)

AddStaging(upload_batch_id, input, fail) ==
    /\ resp = Idle
    /\ AddStagingDone(AddStagingDocuments(upload_batch_id, input.text, input.metadata, fail))
    /\ UNCHANGED <<provider, db, collection, call, chat>>

(* a request is taken when no service call is in progress; the response of *)
(* the previous request (of one of the endpoints) stays in resp            *)
Listening ==
    resp = Idle \/ resp.op \in {"upload_multiple", "attach", "chat_attachments",
                                "message", "chat"}

(* what extract_patient_data_from_multiple_files returned *)
ExtractResults ==
    { [name |-> <<"A">>, date_of_birth |-> <<"b">>, diagnosis |-> NoneT,
       prescription |-> NoneT, raw_text |-> <<"a">>] }

(* documents.py lines 147-153: " | ".join(filter(None, [...])) *)
CombinedText(result) ==
    JoinWith(<<" ", "|", " ">>,
             NonEmptyParts(<<OrEmpty(result.name), OrEmpty(result.date_of_birth),
                             OrEmpty(result.diagnosis), OrEmpty(result.prescription),
                             OrEmpty(result.raw_text)>>))

(* the staging call of documents.py lines 155-159 *)
UploadStaging(result, uuid, fail) ==
    AddStagingDocuments(uuid, CombinedText(result), [document_types |-> MObj("[]")], fail)

(* POST /api/documents/upload-multiple with accepted files; uuid is the new *)
(* upload_batch_id, extract_fail a raise of the extraction; a raise of the  *)
(* staging call is only printed (lines 160-161)                             *)
UploadMultiple(result, uuid, extract_fail, fail) ==
    /\ Listening
    /\ \A i \in 1..Len(staging_collection) : staging_collection[i].id[2] # uuid
    /\ staging_collection' =
           IF ~extract_fail /\ UploadStaging(result, uuid, fail).ok
           THEN UploadStaging(result, uuid, fail).val
           ELSE staging_collection
    /\ resp' = IF extract_fail
               THEN [op |-> "upload_multiple", status |-> 500]
               ELSE [op |-> "upload_multiple", status |-> 200, upload_batch_id |-> uuid,
                     staging_raised |-> ~UploadStaging(result, uuid, fail).ok]
    /\ UNCHANGED <<provider, db, collection, call, chat>>

SearchResp(query, top_k, upload_batch_id, fails, r) ==
    [op |-> "search", query |-> query, top_k |-> top_k,
     upload_batch_id |-> upload_batch_id, fails |-> fails,
     raised |-> r.raised, result |-> r.result,
     embedCalled |-> r.embedCalled, stagingQueried |-> r.stagingQueried,
     durableQueried |-> r.durableQueried, fallbackRun |-> r.fallbackRun]

Search(query, top_k, upload_batch_id, fails) ==
    /\ resp = Idle
    /\ resp' = SearchResp(query, top_k, upload_batch_id, fails,
                          SearchSimilarPatients(query, top_k, upload_batch_id, fails))
    /\ UNCHANGED <<provider, db, collection, staging_collection, call, chat>>

RagResp(query, upload_batch_id, fails, r) ==
    [op |-> "rag", query |-> query, upload_batch_id |-> upload_batch_id,
     fails |-> fails, raised |-> r.raised, value |-> r.value,
     llmCalled |-> r.llmCalled, context |-> r.context, hits |-> r.hits]

Rag(query, upload_batch_id, fails) ==
    /\ resp = Idle
    /\ resp' = RagResp(query, upload_batch_id, fails,
                       GenerateRagResponse(query, upload_batch_id, fails))
    /\ UNCHANGED <<provider, db, collection, staging_collection, call, chat>>

RefreshResp(before, r) == [op |-> "refresh", raised |-> r.raised, before |-> before]

RefreshDone(r) ==
    /\ collection' = r.collection
    /\ resp' = RefreshResp(collection, r)

Refresh(fail_db, fail_at) ==
    /\ resp = Idle
    /\ RefreshDone(RefreshVectorStore(fail_db, fail_at))
    /\ UNCHANGED <<provider, db, staging_collection, call, chat>>

(* the caller takes the return value *)
Return ==
    /\ resp # Idle
    /\ resp' = Idle
    /\ UNCHANGED <<provider, db, collection, staging_collection, call, chat>>

Next ==
    \/ \E input \in PatientInputs : CreatePatient(input)
    \/ \E i \in 1..MaxPatients, raw_text \in RawTexts, fail \in BOOLEAN : AddPatient(i, raw_text, fail)
    \/ \E b \in Batches, input \in StagingInputs, fail \in BOOLEAN : AddStaging(b, input, fail)
    \/ \E q \in Queries, k \in 1..MaxTopK, b \in BatchArgs, fails \in SearchFailures :
           Search(q, k, b, fails)
    \/ \E q \in Queries, b \in BatchArgs, fails \in RagFailures : Rag(q, b, fails)
    \/ \E fail_db \in BOOLEAN, fail_at \in 0..MaxPatients : Refresh(fail_db, fail_at)
    \/ Return

Spec == Init /\ [][Next]_vars

-----------------------------------------------------------------------------
(* _chunk_text on its own, one step per iteration of its while loop *)

ChunkAlphabet == {"a", "b", " ", "\\x01"}

ChunkTexts == UNION {[1..n -> ChunkAlphabet] : n \in 0..MaxTextLen}

(* a text of ten distinct characters, chunked with size 4 and overlap 1 *)
ChunkExample == <<"A", "B", "C", "D", "E", "F", "G", "H", "I", "J">>

ChunkCall(text, chunk_size, overlap) ==
    [op |-> "chunk", text |-> text, chunk_size |-> chunk_size, overlap |-> overlap,
     pc |-> "call", safe_text |-> <<>>, start |-> 0, chunks |-> <<>>]

InitChunk ==
    /\ chat_contexts = <<>>
    /\ sessions = <<>>
    /\ file_processing_cache = <<>>
    /\ provider = "Local"
    /\ db = <<>>
    /\ collection = <<>>
    /\ staging_collection = <<>>
    /\ resp = Idle
    /\ call \in {ChunkCall(text, chunk_size, overlap) :
                    text \in ChunkTexts, chunk_size \in 1..MaxChunkSize,
                    overlap \in 0..MaxOverlap}
                \cup {ChunkCall(ChunkExample, 4, 1)}

(* lines 70-76: safe_text is computed; an empty one returns [] at once *)
ChunkStarted(c, safe_text) ==
    IF safe_text = <<>> THEN [c EXCEPT !.pc = "done"]
    ELSE [c EXCEPT !.pc = "loop", !.safe_text = safe_text]

ChunkEnter ==
    /\ call.op = "chunk"
    /\ call.pc = "call"
    /\ call' = ChunkStarted(call, SafeText(call.text))
    /\ UNCHANGED <<provider, db, collection, staging_collection, resp, chat>>

(* lines 78-81: the window [start, end) is appended; the loop is left at *)
(* the end of the text, otherwise start moves to end - overlap           *)
ChunkEmitted(c, end) ==
    IF end = Len(c.safe_text)
    THEN [c EXCEPT !.chunks = Append(@, SubSeq(c.safe_text, c.start + 1, end)),
                   !.pc = "done"]
    ELSE [c EXCEPT !.chunks = Append(@, SubSeq(c.safe_text, c.start + 1, end)),
                   !.start = NextStart(end, c.overlap)]

(* one test of the while condition and, if it holds, one loop body; the  *)
(* model stops following a call that has emitted MaxChunks chunks        *)
ChunkIterate ==
    /\ call.op = "chunk"
    /\ call.pc = "loop"
    /\ Len(call.chunks) < MaxChunks
    /\ call' = IF call.start < Len(call.safe_text)
               THEN ChunkEmitted(call, WindowEnd(call.start, call.chunk_size,
                                                 Len(call.safe_text)))
               ELSE [call EXCEPT !.pc = "done"]
    /\ UNCHANGED <<provider, db, collection, staging_collection, resp, chat>>

NextChunk == ChunkEnter \/ ChunkIterate

SpecChunk == InitChunk /\ [][NextChunk]_vars

-----------------------------------------------------------------------------
(* _embed_texts on its own, for every provider and every remote answer *)

EmbedTextSet == {<<"a">>, <<"b">>, <<"A">>}

EmbedBatches == UNION {[1..n -> EmbedTextSet] : n \in 1..MaxBatch}

InitEmbed ==
    /\ chat_contexts = <<>>
    /\ sessions = <<>>
    /\ file_processing_cache = <<>>
    /\ provider \in Providers
    /\ db = <<>>
    /\ collection = <<>>
    /\ staging_collection = <<>>
    /\ resp = Idle
    /\ call = NoCall

EmbedResult(texts, result, r) ==
    [op |-> "embed", texts |-> texts, response |-> result, ok |-> r.ok, val |-> r.val]

EmbedCall(texts, fail, result) ==
    /\ call = NoCall
    /\ call' = EmbedResult(texts, result, EmbedTextsWith(texts, fail, result))
    /\ UNCHANGED <<provider, db, collection, staging_collection, resp, chat>>

EmbedReturn ==
    /\ call.op = "embed"
    /\ call' = NoCall
    /\ UNCHANGED <<provider, db, collection, staging_collection, resp, chat>>

NextEmbed ==
    \/ \E texts \in EmbedBatches, fail \in BOOLEAN :
           \E result \in Responses(texts) : EmbedCall(texts, fail, result)
    \/ EmbedReturn

SpecEmbed == InitEmbed /\ [][NextEmbed]_vars

-----------------------------------------------------------------------------
(* The service from its construction on: RAGService.__init__ resolves the *)
(* provider from the environment, then the operations run                  *)

(* what __init__ finds: sentence_transformers importable, the model loads, *)
(* google.generativeai importable, GEMINI_API_KEY set, genai.configure of  *)
(* line 57 succeeds, GeminiService() of line 67 succeeds                   *)
Envs ==
    [st_importable : BOOLEAN, model_loads : BOOLEAN, sdk_importable : BOOLEAN,
     api_key_set : BOOLEAN, configure_ok : BOOLEAN, gemini_ok : BOOLEAN]

(* lines 43-51: self.encoder is not None *)
InitEncoder(env) == env.st_importable /\ env.model_loads

InitRemote_NoEncoderTest(env, encoder) ==
    env.sdk_importable /\ env.api_key_set /\ env.configure_ok

(* lines 52-64: self.remote_embedder is not None *)
InitRemote(env, encoder) ==
    ~encoder /\ env.sdk_importable /\ env.api_key_set /\ env.configure_ok

(* line 12 imports gemini_service, which imports the SDK, and line 67      *)
(* builds a GeminiService, which raises without the API key: __init__      *)
(* returns a service only if this holds                                    *)
Constructs(env) == env.sdk_importable /\ env.api_key_set /\ env.gemini_ok

Constructed(env, encoder) ==
    [op |-> "init", env |-> env, encoder |-> encoder,
     remote_embedder |-> InitRemote(env, encoder)]

Construction(env) == Constructed(env, InitEncoder(env))

(* the branch _embed_texts takes: the encoder first, then the remote embedder *)
VariantOf(c) ==
    IF c.encoder THEN "Local" ELSE IF c.remote_embedder THEN "Remote" ELSE "Unavailable"

InitService ==
    /\ chat_contexts = <<>>
    /\ sessions = <<>>
    /\ file_processing_cache = <<>>
    /\ call \in {Construction(env) : env \in {e \in Envs : Constructs(e)}}
    /\ provider = VariantOf(call)
    /\ db = <<>>
    /\ collection = <<>>
    /\ staging_collection = <<>>
    /\ resp = Idle

ServiceQuery == <<"A">>

ServiceStaging == [text |-> <<"a">>, metadata |-> EmptyMeta]

NextService ==
    \/ \E input \in PatientInputs : CreatePatient(input)
    \/ \E i \in 1..MaxPatients, fail \in BOOLEAN : AddPatient(i, NoneT, fail)
    \/ \E fail \in BOOLEAN : AddStaging("B1", ServiceStaging, fail)
    \/ \E b \in {NoBatch, "B1"}, fails \in {{}, {"embed"}} :
           Search(ServiceQuery, 1, b, fails)
    \/ \E fail_at \in 0..1 : Refresh(FALSE, fail_at)
    \/ \E result \in ExtractResults, uuid \in Batches, extract_fail, fail \in BOOLEAN :
           UploadMultiple(result, uuid, extract_fail, fail)
    \/ Return

SpecService == InitService /\ [][NextService]_vars

-----------------------------------------------------------------------------
(* _sanitize_metadata on its own and inside the two add operations *)

MetaKeys == {"document_types", "type"}

MetaValueSet ==
    {MStr("x"), MInt(1), [kind |-> "float", val |-> "0.5"],
     [kind |-> "bool", val |-> "True"], [kind |-> "none", val |-> "None"],
     MObj("[]"), [kind |-> "dict", val |-> "{}"]}

MetaInputs == UNION {[ks -> MetaValueSet] : ks \in SUBSET MetaKeys}

SanitizePatient ==
    [name |-> <<"A">>, date_of_birth |-> <<"b">>, diagnosis |-> NoneT, prescription |-> NoneT]

InitSanitize ==
    /\ chat_contexts = <<>>
    /\ sessions = <<>>
    /\ file_processing_cache = <<>>
    /\ provider = "Local"
    /\ db = <<>>
    /\ collection = <<>>
    /\ staging_collection = <<>>
    /\ resp = Idle
    /\ call = NoCall

SanitizeCall(metadata) ==
    /\ call = NoCall
    /\ call' = [op |-> "sanitize", input |-> metadata,
                output |-> SanitizeMetadata(metadata)]
    /\ UNCHANGED <<provider, db, collection, staging_collection, resp, chat>>

SanitizeReturn ==
    /\ call.op = "sanitize"
    /\ call' = NoCall
    /\ UNCHANGED <<provider, db, collection, staging_collection, resp, chat>>

NextSanitize ==
    \/ \E metadata \in MetaInputs : SanitizeCall(metadata)
    \/ SanitizeReturn
    \/ CreatePatient(SanitizePatient)
    \/ \E i \in 1..MaxPatients : AddPatient(i, NoneT, FALSE)
    \/ \E metadata \in MetaInputs :
           AddStaging("B1", [text |-> <<"a">>, metadata |-> metadata], FALSE)
    \/ Return

SpecSanitize == InitSanitize /\ [][NextSanitize]_vars

-----
(* Chat attachments: RAGService.add_chat_attachment, get_chat_attachments,  *)
(* get_chat_context on one service object, and the endpoints that call them *)
(* on the service object built for the request.                             *)

MaxAttachments == 3

ChatSessions == {"S1", "S2"}

AttachmentInputs ==
    { [content |-> <<"a">>, metadata |-> [filename |-> "f1"]],
      [content |-> <<"b", "b">>, metadata |-> [k \in {} |-> ""]] }

(* metadata.get('filename', default) *)
FilenameOr(metadata, default) ==
    IF "filename" \in DOMAIN metadata THEN metadata["filename"] ELSE default

HeaderBlock_ContentOnly(content, metadata) == content

(* line 350: f"\n\n--- ATTACHED FILE: {metadata.get('filename')} ---\n{content}" *)
HeaderBlock(content, metadata) ==
    <<"\n\n--- ATTACHED FILE: ", FilenameOr(metadata, "None"), " ---\n">> \o content

(* lines 333-339: the session's entry is created when it is missing *)
WithSession(contexts, chat_session_id) ==
    IF chat_session_id \in DOMAIN contexts THEN contexts
    ELSE [s \in (DOMAIN contexts) \cup {chat_session_id} |->
             IF s = chat_session_id
             THEN [attachments |-> <<>>, attached_files_context |-> <<>>]
             ELSE contexts[s]]

(* line 327, lines 342-350: the attachment and its block are appended *)
AttachmentAppended(contexts, chat_session_id, content, metadata) ==
    [contexts EXCEPT ![chat_session_id] =
        [attachments |->
             Append(@.attachments,
                    [attachment_id |-> <<"chat", chat_session_id, "attachment",
                                         FilenameOr(metadata, "unknown")>>,
                     content |-> content, metadata |-> metadata]),
         attached_files_context |->
             @.attached_files_context \o HeaderBlock(content, metadata)]]

(* RAGService.add_chat_attachment on a service object whose chat_contexts is contexts *)
AddChatAttachmentTo(contexts, chat_session_id, content, metadata) ==
    AttachmentAppended(WithSession(contexts, chat_session_id),
                       chat_session_id, content, metadata)

(* RAGService.get_chat_attachments *)
GetChatAttachmentsOf(contexts, chat_session_id) ==
    IF chat_session_id \notin DOMAIN contexts THEN <<>>
    ELSE contexts[chat_session_id].attachments

(* RAGService.get_chat_context *)
GetChatContextOf(contexts, chat_session_id) ==
    IF chat_session_id \notin DOMAIN contexts THEN <<>>
    ELSE contexts[chat_session_id].attached_files_context

RECURSIVE AttachmentCount(_, _)
AttachmentCount(contexts, ss) ==
    IF ss = {} THEN 0
    ELSE Len(contexts[CHOOSE s \in ss : TRUE].attachments)
         + AttachmentCount(contexts, ss \ {CHOOSE s \in ss : TRUE})

AddChatAttachment(chat_session_id, input) ==
    /\ resp = Idle
    /\ AttachmentCount(chat_contexts, DOMAIN chat_contexts) < MaxAttachments
    /\ chat_contexts' = AddChatAttachmentTo(chat_contexts, chat_session_id,
                                            input.content, input.metadata)
    /\ resp' = [op |-> "add_chat_attachment", chat_session_id |-> chat_session_id,
                content |-> input.content, metadata |-> input.metadata]
    /\ UNCHANGED <<provider, db, collection, staging_collection, call,
                   sessions, file_processing_cache>>

GetChatAttachments(chat_session_id) ==
    /\ resp = Idle
    /\ resp' = [op |-> "get_chat_attachments", chat_session_id |-> chat_session_id,
                value |-> GetChatAttachmentsOf(chat_contexts, chat_session_id)]
    /\ UNCHANGED <<provider, db, collection, staging_collection, call, chat>>

GetChatContext(chat_session_id) ==
    /\ resp = Idle
    /\ resp' = [op |-> "get_chat_context", chat_session_id |-> chat_session_id,
                value |-> GetChatContextOf(chat_contexts, chat_session_id)]
    /\ UNCHANGED <<provider, db, collection, staging_collection, call, chat>>

(* The endpoints.  Depends(get_rag_service) hands every request the result  *)
(* of RAGService(): an object that has no chat_contexts attribute yet.      *)
GetRagService == <<>>

(* str(uuid.uuid4()) *)
Uuids == {"U1"}

AllowedTypes == {"text/plain"}

Uploads ==
    { [filename |-> "f1", content_type |-> "text/plain", text |-> <<"a">>],
      [filename |-> "f2", content_type |-> "application/zip", text |-> <<"b">>] }

(* documents.py lines 318-326: the processed content of a text file *)
ProcessedText(file) ==
    <<"\nTEXT ATTACHMENT: ", file.filename, "\n\nCONTENT:\n">> \o file.text
    \o <<"\n\nThis text content is now available in the chat context.\n">>

(* documents.py lines 221-223 *)
SessionOr(chat_session_id, uuid) ==
    IF Truthy(chat_session_id) THEN chat_session_id ELSE uuid

(* POST /api/documents/attach-to-chat: the attachment goes to the request's *)
(* service object (lines 330-339), which is dropped with the request;       *)
(* stored is what that object holds for the session when the handler ends   *)
AttachToChat(file, chat_session_id, uuid) ==
    /\ Listening
    /\ resp' = IF file.content_type \notin AllowedTypes
               THEN [op |-> "attach", status |-> 400]
               ELSE [op |-> "attach", status |-> 200,
                     chat_session_id |-> SessionOr(chat_session_id, uuid),
                     filename |-> file.filename, content |-> ProcessedText(file),
                     stored |-> GetChatAttachmentsOf(
                         AddChatAttachmentTo(GetRagService,
                                             SessionOr(chat_session_id, uuid),
                                             ProcessedText(file),
                                             [filename |-> file.filename]),
                         SessionOr(chat_session_id, uuid))]
    /\ UNCHANGED <<provider, db, collection, staging_collection, call, chat>>

(* GET /api/documents/chat-attachments/{chat_session_id} *)
ChatAttachmentsEndpoint(chat_session_id) ==
    /\ Listening
    /\ resp' = [op |-> "chat_attachments", status |-> 200,
                chat_session_id |-> chat_session_id,
                attachments |-> GetChatAttachmentsOf(GetRagService, chat_session_id),
                total_attachments |->
                    Len(GetChatAttachmentsOf(GetRagService, chat_session_id))]
    /\ UNCHANGED <<provider, db, collection, staging_collection, call, chat>>

(* chat.py lines 114-128: "\n\n".join(context_parts) *)
FinalContext(attached_files_context, message) ==
    JoinWith(<<"\n\n">>,
             (IF attached_files_context # <<>>
              THEN << <<"=== ATTACHED FILES CONTEXT ===">>, attached_files_context,
                      <<"=== END ATTACHED FILES ===">> >>
              ELSE <<>>)
             \o << <<"USER QUESTION: ">> \o message >>)

(* chat.py lines 137-142 *)
ChatResponse(message, chat_session_id, uuid, attached_files_context, fail) ==
    [op |-> "message", status |-> 200,
     message |-> GenerateChatResponse(
                     message, FinalContext(attached_files_context, message), fail).val,
     chat_session_id |-> SessionOr(chat_session_id, uuid),
     has_context |-> attached_files_context # <<>>,
     context |-> FinalContext(attached_files_context, message)]

(* POST /api/chat/message *)
SendMessage(message, chat_session_id, uuid, fail) ==
    /\ Listening
    /\ resp' = ChatResponse(message, chat_session_id, uuid,
                            IF Truthy(chat_session_id)
                            THEN GetChatContextOf(GetRagService, chat_session_id)
                            ELSE <<>>,
                            fail)
    /\ UNCHANGED <<provider, db, collection, staging_collection, call, chat>>

NextAttach ==
    \/ CreatePatient(SanitizePatient)
    \/ \E i \in 1..MaxPatients : AddPatient(i, NoneT, FALSE)
    \/ AddStaging("B1", ServiceStaging, FALSE)
    \/ \E b \in {NoBatch, "B1"} : Search(ServiceQuery, 1, b, {})
    \/ Rag(ServiceQuery, "B1", {})
    \/ Refresh(FALSE, 0)
    \/ \E s \in ChatSessions, input \in AttachmentInputs : AddChatAttachment(s, input)
    \/ \E s \in ChatSessions : GetChatAttachments(s)
    \/ \E s \in ChatSessions : GetChatContext(s)
    \/ \E file \in Uploads, s \in ChatSessions \cup {None}, uuid \in Uuids :
           AttachToChat(file, s, uuid)
    \/ \E s \in ChatSessions : ChatAttachmentsEndpoint(s)
    \/ \E s \in ChatSessions \cup {None}, uuid \in Uuids, fail \in BOOLEAN :
           SendMessage(ServiceQuery, s, uuid, fail)
    \/ Return

SpecAttach == InitSanitize /\ [][NextAttach]_vars

-----
(* ChatContextService: the sessions of the /chat endpoints.  A session is  *)
(* the value stored under its id in chat_contexts; a file is stored with   *)
(* its uuid; file_processing_cache maps file ids to summaries.             *)

MaxMessages == 2

MaxFiles == 2

SessionIds == {"s1", "s2"}

FileIds == {<<"file", i>> : i \in 1..MaxFiles}

MessageInputs ==
    { [message |-> "q", role |-> "user"], [message |-> "a", role |-> "assistant"] }

FileInputs == { [name |-> "n.txt", type |-> "text/plain", content |-> <<"a">>] }

(* lines 18-25 *)
NewSession ==
    [messages |-> <<>>, attached_files |-> <<>>, context_summary |-> <<>>,
     processed_file_summaries |-> <<>>]

(* A method is modelled by its return value (result) and the chat_contexts *)
(* it leaves (contexts).                                                   *)

(* ChatContextService.create_session with uuid4() = session_id *)
CreateSessionIn(contexts, session_id) ==
    [s \in (DOMAIN contexts) \cup {session_id} |->
        IF s = session_id THEN NewSession ELSE contexts[s]]

AddMessageTo_Prepend(contexts, session_id, message, role) ==
    IF session_id \notin DOMAIN contexts THEN [result |-> FALSE, contexts |-> contexts]
    ELSE [result |-> TRUE,
          contexts |-> [contexts EXCEPT ![session_id].messages =
                           <<[role |-> role, content |-> message]>> \o @]]

(* ChatContextService.add_message *)
AddMessageTo(contexts, session_id, message, role) ==
    IF session_id \notin DOMAIN contexts THEN [result |-> FALSE, contexts |-> contexts]
    ELSE [result |-> TRUE,
          contexts |-> [contexts EXCEPT ![session_id].messages =
                           Append(@, [role |-> role, content |-> message])]]

(* lines 45-52 *)
FileInfo(file_id, file) ==
    [file_id |-> file_id, name |-> file.name, type |-> file.type,
     content |-> file.content, processed_content |-> None]

(* ChatContextService.add_attached_file with uuid4() = file_id *)
AddAttachedFileTo(contexts, session_id, file_id, file) ==
    IF session_id \notin DOMAIN contexts THEN [result |-> FALSE, contexts |-> contexts]
    ELSE [result |-> TRUE,
          contexts |-> [contexts EXCEPT ![session_id].attached_files =
                           Append(@, FileInfo(file_id, file))]]

(* ChatContextService.update_context_summary *)
UpdateContextSummaryIn(contexts, session_id, summary) ==
    IF session_id \notin DOMAIN contexts THEN [result |-> FALSE, contexts |-> contexts]
    ELSE [result |-> TRUE,
          contexts |-> [contexts EXCEPT ![session_id].context_summary = summary]]

(* ChatContextService.clear_session: del self.chat_contexts[session_id] *)
ClearSessionIn(contexts, session_id) ==
    IF session_id \notin DOMAIN contexts THEN [result |-> FALSE, contexts |-> contexts]
    ELSE [result |-> TRUE,
          contexts |-> [s \in (DOMAIN contexts) \ {session_id} |-> contexts[s]]]

(* ChatContextService.get_context *)
GetContextOf(contexts, session_id) ==
    IF session_id \in DOMAIN contexts THEN contexts[session_id] ELSE None

(* ChatContextService.get_attached_files *)
GetAttachedFilesOf(contexts, session_id) ==
    IF session_id \in DOMAIN contexts THEN contexts[session_id].attached_files ELSE <<>>

(* ChatContextService.cache_file_summary *)
CacheFileSummaryIn(cache, file_id, summary) ==
    [f \in (DOMAIN cache) \cup {file_id} |-> IF f = file_id THEN summary ELSE cache[f]]

(* ChatContextService.get_cached_file_summary *)
GetCachedFileSummaryOf(cache, file_id) ==
    IF file_id \in DOMAIN cache THEN cache[file_id] ELSE None

(* the file ids stored in the sessions *)
StoredFileIds(contexts) ==
    UNION {{contexts[s].attached_files[i].file_id :
               i \in 1..Len(contexts[s].attached_files)} : s \in DOMAIN contexts}

RECURSIVE MessageCount(_, _)
MessageCount(contexts, ss) ==
    IF ss = {} THEN 0
    ELSE Len(contexts[CHOOSE s \in ss : TRUE].messages)
         + MessageCount(contexts, ss \ {CHOOSE s \in ss : TRUE})

(* session_id is what uuid4() returns: an id not in use *)
CreateSession(session_id) ==
    /\ resp = Idle
    /\ session_id \notin DOMAIN sessions
    /\ sessions' = CreateSessionIn(sessions, session_id)
    /\ resp' = [op |-> "create_session", session_id |-> session_id, result |-> session_id]
    /\ UNCHANGED <<provider, db, collection, staging_collection, call,
                   chat_contexts, file_processing_cache>>

AddMessage(session_id, input) ==
    /\ resp = Idle
    /\ MessageCount(sessions, DOMAIN sessions) < MaxMessages
    /\ sessions' = AddMessageTo(sessions, session_id, input.message, input.role).contexts
    /\ resp' = [op |-> "add_message", session_id |-> session_id,
                result |-> AddMessageTo(sessions, session_id,
                                        input.message, input.role).result,
                message |-> input.message, role |-> input.role]
    /\ UNCHANGED <<provider, db, collection, staging_collection, call,
                   chat_contexts, file_processing_cache>>

(* file_id is what uuid4() returns: an id not in use *)
AddAttachedFile(session_id, file_id, file) ==
    /\ resp = Idle
    /\ file_id \notin StoredFileIds(sessions) \cup DOMAIN file_processing_cache
    /\ sessions' = AddAttachedFileTo(sessions, session_id, file_id, file).contexts
    /\ resp' = [op |-> "add_attached_file", session_id |-> session_id,
                result |-> AddAttachedFileTo(sessions, session_id, file_id, file).result,
                file |-> FileInfo(file_id, file)]
    /\ UNCHANGED <<provider, db, collection, staging_collection, call,
                   chat_contexts, file_processing_cache>>

UpdateContextSummary(session_id, summary) ==
    /\ resp = Idle
    /\ sessions' = UpdateContextSummaryIn(sessions, session_id, summary).contexts
    /\ resp' = [op |-> "update_context_summary", session_id |-> session_id,
                result |-> UpdateContextSummaryIn(sessions, session_id, summary).result,
                summary |-> summary]
    /\ UNCHANGED <<provider, db, collection, staging_collection, call,
                   chat_contexts, file_processing_cache>>

(* gemini_service.py line 759: the summary of a file of a session is cached *)
CacheFileSummary(file_id, summary) ==
    /\ resp = Idle
    /\ file_id \in StoredFileIds(sessions)
    /\ file_processing_cache' = CacheFileSummaryIn(file_processing_cache, file_id, summary)
    /\ resp' = [op |-> "cache_file_summary", file_id |-> file_id]
    /\ UNCHANGED <<provider, db, collection, staging_collection, call,
                   chat_contexts, sessions>>

ClearSession(session_id) ==
    /\ resp = Idle
    /\ sessions' = ClearSessionIn(sessions, session_id).contexts
    /\ resp' = [op |-> "clear_session", session_id |-> session_id,
                result |-> ClearSessionIn(sessions, session_id).result]
    /\ UNCHANGED <<provider, db, collection, staging_collection, call,
                   chat_contexts, file_processing_cache>>

NextContext ==
    \/ \E s \in SessionIds : CreateSession(s)
    \/ \E s \in SessionIds, input \in MessageInputs : AddMessage(s, input)
    \/ \E s \in SessionIds, f \in FileIds, file \in FileInputs : AddAttachedFile(s, f, file)
    \/ \E s \in SessionIds : UpdateContextSummary(s, <<"user", ": ", "q">>)
    \/ \E f \in FileIds : CacheFileSummary(f, <<"summary">>)
    \/ \E s \in SessionIds : ClearSession(s)
    \/ Return

(* the service object of the process, as constructed (line 124) *)
SpecContext == InitSanitize /\ [][NextContext]_vars

-----
(* POST /api/chat/chat on the one ChatContextService of the process.  The  *)
(* handler runs on the single event loop of uvicorn.run and reaches no     *)
(* suspension point between its first and its last access to the service   *)
(* (the model calls of GeminiService are synchronous), so requests that    *)
(* overlap in time run their handler bodies one after the other: the       *)
(* handler is one step, and overlapping requests are steps in either       *)
(* order.  The other endpoints of the router (start-session, upload-file,  *)
(* delete session) act through create_session, add_attached_file and       *)
(* clear_session.                                                          *)

MaxChatMessages == 12

SummaryWindow == 10

(* chat.py lines 157-161: an unknown session id is replaced by a new session *)
ChatSessionId(contexts, session_id, uuid) ==
    IF session_id \in DOMAIN contexts THEN session_id ELSE uuid

ChatEntered(contexts, session_id, uuid) ==
    IF session_id \in DOMAIN contexts THEN contexts ELSE CreateSessionIn(contexts, uuid)

(* gemini_service.py line 924: the summary of a text file *)
ProcessedFile(file) == <<"text ", file.name, ":\n">> \o file.content

(* gemini_service.py lines 727-760: every file without a cached summary is *)
(* processed and its summary cached                                        *)
RECURSIVE FilesCached(_, _, _)
FilesCached(cache, files, i) ==
    IF i > Len(files) THEN cache
    ELSE IF GetCachedFileSummaryOf(cache, files[i].file_id) # None
         THEN FilesCached(cache, files, i + 1)
         ELSE FilesCached(CacheFileSummaryIn(cache, files[i].file_id,
                                             ProcessedFile(files[i])),
                          files, i + 1)

LastMessages_All(messages) == messages

(* context['messages'][-10:] *)
LastMessages(messages) ==
    SubSeq(messages, Max(1, Len(messages) - SummaryWindow + 1), Len(messages))

(* "\n".join([f"{msg['role']}: {msg['content']}" for msg in messages]) *)
SummaryOf(messages) ==
    JoinWith(<<"\n">>, [i \in 1..Len(messages) |->
                           <<messages[i].role, ": ", messages[i].content>>])

(* chat.py lines 188-194: the response is stored and the summary rebuilt *)
ChatAnswered(contexts, session_id, response) ==
    UpdateContextSummaryIn(
        AddMessageTo(contexts, session_id, response, "assistant").contexts,
        session_id,
        SummaryOf(LastMessages(
            AddMessageTo(contexts, session_id, response, "assistant")
                .contexts[session_id].messages))).contexts

(* chat.py lines 163-194 on the session the request ends up with *)
ChatAsked(contexts, session_id, query, fail) ==
    ChatAnswered(AddMessageTo(contexts, session_id, query, "user").contexts,
                 session_id, GenerateChatResponse(query, <<>>, fail).val)

(* POST /api/chat/chat, with pandas importable; the patient context and the *)
(* previous summary only enter the prompt; uuid is what uuid4() would give  *)
Chat(session_id, uuid, query, fail) ==
    /\ Listening
    /\ session_id \in DOMAIN sessions \/ uuid \notin DOMAIN sessions
    /\ MessageCount(sessions, DOMAIN sessions) + 2 <= MaxChatMessages
    /\ sessions' = ChatAsked(ChatEntered(sessions, session_id, uuid),
                             ChatSessionId(sessions, session_id, uuid), query, fail)
    /\ file_processing_cache' =
           FilesCached(file_processing_cache,
                       GetAttachedFilesOf(sessions, session_id), 1)
    /\ resp' = [op |-> "chat", status |-> 200, requested |-> session_id,
                query |-> query,
                response |-> GenerateChatResponse(query, <<>>, fail).val,
                session_id |-> ChatSessionId(sessions, session_id, uuid),
                attached_files_count |-> Len(GetAttachedFilesOf(sessions, session_id))]
    /\ UNCHANGED <<provider, db, collection, staging_collection, call, chat_contexts>>

NextChat ==
    \/ \E s \in SessionIds, uuid \in SessionIds, fail \in BOOLEAN : Chat(s, uuid, "q", fail)
    \/ \E s \in SessionIds : CreateSession(s)
    \/ \E s \in SessionIds, f \in FileIds, file \in FileInputs : AddAttachedFile(s, f, file)
    \/ \E s \in SessionIds : ClearSession(s)
    \/ Return

SpecChat == InitSanitize /\ [][NextChat]_vars

-----
(* Properties of search_similar_patients and generate_rag_response *)

IsSearch == resp.op = "search"

IsRag == resp.op = "rag"

VectorFailures == {"embed", "staging", "durable"}

(* what each index returns for the query of the call held in resp *)
StagingAnswer ==
    QueryCollection(staging_collection, EmbedVec(resp.query), resp.top_k, FALSE).val

DurableAnswer ==
    QueryCollection(collection, EmbedVec(resp.query), resp.top_k, FALSE).val

FromIndex(h, coll) ==
    \E i \in 1..Len(coll) : coll[i].document = h.content /\ coll[i].metadata = h.metadata

NonIncreasingScores(hits) ==
    \A i, j \in 1..Len(hits) : i < j => hits[i].similarity_score >= hits[j].similarity_score

C1Case ==
    /\ IsSearch
    /\ ProviderAvailable
    /\ resp.top_k >= 1
    /\ Truthy(resp.upload_batch_id)
    /\ resp.fails \cap VectorFailures = {}
    /\ StagingAnswer \o DurableAnswer # <<>>

(* C1: with a batch id, no failure and at least one vector hit, the result *)
(* is the first top_k elements of the staging hits followed by the durable *)
(* hits: no durable hit precedes a staging hit, never more than top_k.     *)
C1_StagingFirstTruncated ==
    C1Case =>
        /\ resp.result = Take(StagingAnswer \o DurableAnswer, resp.top_k)
        /\ Len(resp.result) <= resp.top_k
        /\ \A i, j \in 1..Len(resp.result) :
               (FromIndex(resp.result[i], collection)
                /\ FromIndex(resp.result[j], staging_collection)) => j < i

C1_Witness ==
    /\ C1Case
    /\ Len(StagingAnswer) = 1
    /\ Len(DurableAnswer) = 2
    /\ resp.top_k = 2
    /\ resp.result = <<StagingAnswer[1], DurableAnswer[1]>>

RagKeys == {"response", "sources", "patient_ids", "context_used"}

(* C2: whatever the provider and whichever of the embedding call, the index *)
(* queries, the relational store or the LLM call fails, the search returns  *)
(* a list and the RAG call a dict with the four response keys; neither      *)
(* propagates an exception.                                                 *)
C2_NeverPropagates ==
    /\ IsSearch => /\ ~resp.raised
                   /\ DOMAIN resp.result = 1..Len(resp.result)
    /\ IsRag => /\ ~resp.raised
                /\ DOMAIN resp.value = RagKeys

C2_Witness ==
    /\ IsSearch
    /\ ProviderAvailable
    /\ resp.fails = FailurePoints \ {"llm"}
    /\ collection # <<>>
    /\ resp.result = <<>>

KeywordAnswer == SqlFallback(resp.query, resp.top_k, "db" \in resp.fails)

(* C3: a provider is configured but embedding the query fails: the vector   *)
(* steps count as zero results, the keyword fallback is executed and its    *)
(* matching records (up to top_k) are returned.                             *)
C3_EmbedFailureFallsBack ==
    (IsSearch /\ ProviderAvailable /\ "embed" \in resp.fails) =>
        resp.result = KeywordAnswer

(* C4: a raising index query only zeroes its own step: after a failing     *)
(* staging query the durable hits are still returned, after a failing      *)
(* durable query the staging hits are kept, and when both steps yield      *)
(* nothing the keyword fallback result is returned.                        *)
C4_QueryFailureContinues ==
    (IsSearch /\ ProviderAvailable /\ "embed" \notin resp.fails) =>
        LET staged == IF Truthy(resp.upload_batch_id) /\ "staging" \notin resp.fails
                      THEN StagingAnswer ELSE <<>>
            durable == IF "durable" \notin resp.fails THEN DurableAnswer ELSE <<>>
        IN /\ staged \o durable # <<>> => resp.result = Take(staged \o durable, resp.top_k)
           /\ staged \o durable = <<>> => resp.result = KeywordAnswer

(* C5: with no embedding provider the search makes no embedding call and   *)
(* no index query, runs the keyword fallback and returns its result        *)
(* without raising, for every query and batch id.                          *)
C5_UnavailableGoesToKeyword ==
    (IsSearch /\ provider = "Unavailable") =>
        /\ ~resp.embedCalled
        /\ ~resp.stagingQueried
        /\ ~resp.durableQueried
        /\ resp.fallbackRun
        /\ ~resp.raised
        /\ resp.result = KeywordAnswer

C5_Witness ==
    /\ IsSearch
    /\ provider = "Unavailable"
    /\ Truthy(resp.upload_batch_id)
    /\ resp.result # <<>>

(* the fields of a record that are present and non-empty, in the order *)
(* name, date_of_birth, diagnosis, prescription, joined by one space   *)
RecordFields(p) ==
    LET fields == <<p.name, p.date_of_birth, p.diagnosis, p.prescription>>
        present == SelectSeq(fields, LAMBDA f : f # NoneT /\ Len(f) > 0)
    IN [n \in 1..(2 * Len(present) - 1) |->
           IF n % 2 = 1 THEN present[(n + 1) \div 2] ELSE <<" ">>]

RecordMatches(p, query) ==
    LET hay == Lower(Flatten(RecordFields(p)))
        q == Lower(query)
    IN \E off \in 0..Len(hay) :
           /\ off + Len(q) <= Len(hay)
           /\ \A n \in 1..Len(q) : hay[off + n] = q[n]

MatchingIds(query) ==
    LET matching == SelectSeq(db, LAMBDA p : RecordMatches(p, query))
    IN [i \in 1..Len(matching) |-> matching[i].id]

C6Case == IsSearch /\ resp.fallbackRun /\ "db" \notin resp.fails

(* C6: the keyword fallback returns exactly the records whose lower-cased  *)
(* joined fields contain the lower-cased query, in scan order, each with   *)
(* similarity 1.0 and type patient_record, cut to the first top_k; a       *)
(* record that does not match is never returned.                           *)
C6_KeywordFallbackExact ==
    C6Case =>
        /\ [i \in 1..Len(resp.result) |-> resp.result[i].metadata.patient_id.val]
               = Take(MatchingIds(resp.query), resp.top_k)
        /\ \A i \in 1..Len(resp.result) :
               /\ resp.result[i].similarity_score = ONE
               /\ resp.result[i].metadata.type.val = "patient_record"
               /\ \E n \in 1..Len(db) :
                      /\ db[n].id = resp.result[i].metadata.patient_id.val
                      /\ RecordMatches(db[n], resp.query)

C6_Witness ==
    /\ C6Case
    /\ Len(db) = 2
    /\ resp.query = <<"a", " ", "b">>
    /\ Len(resp.result) = 1
    /\ resp.result[1].metadata.name.val = <<"A">>

C7Case == IsSearch /\ ProviderAvailable /\ resp.fails = {}

MergedAnswer ==
    (IF Truthy(resp.upload_batch_id) THEN StagingAnswer ELSE <<>>) \o DurableAnswer

(* C7: with a provider and no failure the keyword fallback runs exactly    *)
(* when the merged staging+durable list is empty: a non-empty merge is     *)
(* returned without keyword hits, an empty one gives the keyword result,   *)
(* and with both indices and the relational store empty the result is [].  *)
C7_FallbackIffMergedEmpty ==
    C7Case =>
        /\ resp.fallbackRun <=> MergedAnswer = <<>>
        /\ MergedAnswer # <<>> =>
               /\ resp.result = Take(MergedAnswer, resp.top_k)
               /\ \A i \in 1..Len(resp.result) :
                      \/ FromIndex(resp.result[i], staging_collection)
                      \/ FromIndex(resp.result[i], collection)
        /\ MergedAnswer = <<>> => resp.result = KeywordAnswer
        /\ (staging_collection = <<>> /\ collection = <<>> /\ db = <<>>) => resp.result = <<>>

C7_Witness ==
    /\ C7Case
    /\ staging_collection # <<>>
    /\ ~Truthy(resp.upload_batch_id)
    /\ collection = <<>>
    /\ resp.fallbackRun
    /\ resp.result # <<>>

(* C8: every staging hit returned to a search with batch id B carries      *)
(* metadata.upload_batch_id = B; chunks staged under another batch are     *)
(* never returned.                                                         *)
C8_StagingScopedToBatch ==
    (IsSearch /\ Truthy(resp.upload_batch_id)) =>
        \A i \in 1..Len(resp.result) :
            FromIndex(resp.result[i], staging_collection) =>
                MetaGet(resp.result[i].metadata, "upload_batch_id", "") = resp.upload_batch_id

C9Case == IsSearch /\ resp.upload_batch_id \in {NoBatch, ""}

(* C9: without a batch id (None or "") the staging index is not queried    *)
(* and every vector hit returned is a durable hit, in the descending       *)
(* similarity order of the durable index, whatever the staging index holds.*)
C9_NoBatchDurableOnly ==
    C9Case =>
        /\ ~resp.stagingQueried
        /\ (resp.result # <<>> /\ ~resp.fallbackRun) =>
               /\ resp.result = DurableAnswer
               /\ NonIncreasingScores(resp.result)
               /\ \A i \in 1..Len(resp.result) :
                      /\ FromIndex(resp.result[i], collection)
                      /\ ~FromIndex(resp.result[i], staging_collection)

C9_Witness ==
    /\ C9Case
    /\ resp.upload_batch_id = ""
    /\ staging_collection # <<>>
    /\ Len(resp.result) = 2
    /\ ~resp.fallbackRun
    /\ resp.result[1].similarity_score > resp.result[2].similarity_score

(* C10: the context block handed to the generation step is never the empty *)
(* string; an empty hit list gives a "no data available" sentence.         *)
C10_ContextNeverEmpty ==
    (IsRag /\ resp.llmCalled) => resp.context # <<>>

-----------------------------------------------------------------------------
(* Properties of the context block and the answer of generate_rag_response *)

C11TypeOf(h) ==
    IF "type" \in DOMAIN h.metadata THEN h.metadata["type"].val ELSE "unknown"

C11Block(hits, i) ==
    <<"Record ", ToString(i), " (">> \o <<C11TypeOf(hits[i])>> \o <<"): ">>
    \o hits[i].content

RECURSIVE C11Blocks(_, _)
C11Blocks(hits, n) ==
    IF n = 1 THEN C11Block(hits, 1)
    ELSE C11Blocks(hits, n - 1) \o <<"\n\n">> \o C11Block(hits, n)

C11HasPatientId(h) ==
    "patient_id" \in DOMAIN h.metadata /\ h.metadata["patient_id"].val # ""

C11Having(hits) == {i \in 1..Len(hits) : C11HasPatientId(hits[i])}

(* ids lists, in hit order, the patient_id of exactly the hits that have one *)
C11IdsInOrder(ids, hits) ==
    /\ Len(ids) = Cardinality(C11Having(hits))
    /\ \E f \in [1..Len(ids) -> C11Having(hits)] :
           /\ \A j, k \in 1..Len(ids) : j < k => f[j] < f[k]
           /\ \A j \in 1..Len(ids) : ids[j] = hits[f[j]].metadata["patient_id"].val

C11Case == IsRag /\ resp.hits # <<>>

(* C11: for a non-empty hit list the context handed to the model is one     *)
(* labelled record per hit, in hit order, numbered 1..n, each "Record i     *)
(* (type): content" with type "unknown" when the metadata has none, joined  *)
(* by a blank line; context_used is the number of hits and patient_ids      *)
(* lists, in hit order, the patient_id of exactly the hits that have one.   *)
C11_ContextOneRecordPerHit ==
    C11Case =>
        /\ resp.context = C11Blocks(resp.hits, Len(resp.hits))
        /\ resp.value.context_used = Len(resp.hits)
        /\ C11IdsInOrder(resp.value.patient_ids, resp.hits)

C11_Witness ==
    /\ C11Case
    /\ Len(resp.hits) >= 3
    /\ \E i, j \in 1..Len(resp.hits) :
           /\ i < j
           /\ ~C11HasPatientId(resp.hits[i])
           /\ C11HasPatientId(resp.hits[j])
    /\ Len(resp.value.patient_ids) = 2
    /\ resp.value.patient_ids[1] # resp.value.patient_ids[2]

-----------------------------------------------------------------------------
(* Properties of _chunk_text *)

ChunkDone == call.op = "chunk" /\ call.pc = "done"

C12Drop(c, n) == SubSeq(c, n + 1, Len(c))

(* the chunks in order, every chunk but the first without its first overlap characters *)
RECURSIVE C12Rejoin(_, _, _)
C12Rejoin(chunks, overlap, i) ==
    IF i > Len(chunks) THEN <<>>
    ELSE (IF i = 1 THEN chunks[1] ELSE C12Drop(chunks[i], overlap))
         \o C12Rejoin(chunks, overlap, i + 1)

C12Spaced(t) == [i \in 1..Len(t) |-> IF t[i] = "\\x01" THEN " " ELSE t[i]]

C12White(t, from, to) == \A i \in from..to : t[i] \in {" ", "\n", "\t"}

(* s is t with its control characters turned into spaces and without its *)
(* leading and trailing whitespace                                        *)
C12IsSanitized(s, t) ==
    \E i \in 1..(Len(t) + 1), j \in 0..Len(t) :
        /\ s = SubSeq(C12Spaced(t), i, j)
        /\ C12White(C12Spaced(t), 1, i - 1)
        /\ C12White(C12Spaced(t), j + 1, Len(t))
        /\ (s # <<>> => ~C12White(s, 1, 1) /\ ~C12White(s, Len(s), Len(s)))

C12Clean(t) == C12IsSanitized(t, t)

C12Case == ChunkDone /\ 0 < call.overlap /\ call.overlap < call.chunk_size

(* C12 as stated: for any text T and 0 < overlap < chunkSize the chunks,  *)
(* rejoined without the first overlap characters of every chunk but the   *)
(* first, give back T.                                                    *)
C12_RoundTripOriginal ==
    C12Case => C12Rejoin(call.chunks, call.overlap, 1) = call.text

(* C12 amended: the rejoined chunks give back T with its control          *)
(* characters replaced by spaces and its leading and trailing whitespace  *)
(* removed, hence T itself when T has neither.                            *)
C12_RoundTripSanitized ==
    C12Case =>
        /\ C12IsSanitized(C12Rejoin(call.chunks, call.overlap, 1), call.text)
        /\ (C12Clean(call.text) => C12Rejoin(call.chunks, call.overlap, 1) = call.text)

C12_Witness ==
    /\ C12Case
    /\ Len(call.chunks) >= 3
    /\ C12Clean(call.text)
    /\ C12Rejoin(call.chunks, call.overlap, 1) = call.text

C13Blank(t) == C12White(t, 1, Len(t))

(* C13 as stated: an empty or all-whitespace text gives [], and any other *)
(* text T with len(T) <= chunkSize gives exactly one chunk equal to T.    *)
C13_BoundaryOriginal ==
    ChunkDone =>
        /\ (C13Blank(call.text) => call.chunks = <<>>)
        /\ (~C13Blank(call.text) /\ Len(call.text) <= call.chunk_size
               => call.chunks = <<call.text>>)

(* C13 amended: a text that is empty or made of whitespace and control    *)
(* characters only gives [] (never [""]); any other text T with len(T) <= *)
(* chunkSize gives exactly one chunk, equal to T with its control         *)
(* characters replaced by spaces and its leading and trailing whitespace  *)
(* removed, hence equal to T when T has neither.                          *)
C13_BoundarySanitized ==
    ChunkDone =>
        /\ (C13Blank(C12Spaced(call.text)) => call.chunks = <<>>)
        /\ (~C13Blank(C12Spaced(call.text)) /\ Len(call.text) <= call.chunk_size
               => /\ Len(call.chunks) = 1
                  /\ C12IsSanitized(call.chunks[1], call.text)
                  /\ (C12Clean(call.text) => call.chunks[1] = call.text))

C13_Witness ==
    /\ ChunkDone
    /\ Len(call.text) = call.chunk_size
    /\ ~C12Clean(call.text)
    /\ Len(call.chunks) = 1
    /\ call.chunks[1] # <<>>

(* C14: _chunk_text terminates for every (chunkSize, overlap), also with  *)
(* overlap >= chunkSize: every iteration that does not end the loop moves *)
(* the window start strictly forward.                                     *)
C14_StartStrictlyIncreases ==
    [][(call.op = "chunk" /\ call.pc = "loop" /\ call'.pc = "loop")
          => call'.start > call.start]_vars

-----------------------------------------------------------------------------
(* Properties of _embed_texts and of the provider selection *)

C15Case == call.op = "embed" /\ call.ok /\ provider \in {"Local", "Remote"}

(* C15: for every batch of n >= 1 texts, under Local and under Remote, and *)
(* for every shape of the remote answer (one bare vector or a list of      *)
(* vectors, under a dict key or an attribute), a call of _embed_texts that *)
(* returns gives exactly n vectors, the i-th one that of the i-th text.    *)
C15_OneVectorPerText ==
    C15Case =>
        /\ Len(call.val) = Len(call.texts)
        /\ \A i \in 1..Len(call.texts) : call.val[i] = EmbedVec(call.texts[i])

C15_Witness ==
    /\ C15Case
    /\ provider = "Remote"
    /\ call.response.holder = "object"
    /\ Len(call.texts) = 2
    /\ call.val[1] # call.val[2]

C16Built == call.op = "init"

C16Local == call.env.st_importable /\ call.env.model_loads

-----------------------------------------------------------------------------
(* Properties of refresh_vector_store *)

IsRefresh == resp.op = "refresh"

C17Case == IsRefresh /\ ~resp.raised

(* the ids of the first chunk of every row of the relational store *)
C17RowIds == {<<"patient", db[i].id, 0>> : i \in 1..Len(db)}

C17Scores(coll, q, k) == CollectionQuery(coll, EmbedVec(q), k).distances

(* C17 as stated: a refresh that returns leaves the durable index empty,   *)
(* the first time and the second time.                                     *)
C17_RefreshLeavesEmpty == C17Case => collection = <<>>

(* C17 amended: a refresh that returns leaves the durable index not empty  *)
(* but filled again with exactly one entry per row of the relational store *)
(* (empty only without rows or without a provider); a second refresh right *)
(* after it leaves the same index, adding the same entries again changes   *)
(* nothing, and when the index held the same entries before, every query   *)
(* gets the same sequence of distances as before.                          *)
C17_RefreshIdempotent ==
    C17Case =>
        /\ IdsOf(collection) = (IF provider = "Unavailable" THEN {} ELSE C17RowIds)
        /\ Cardinality(IdsOf(collection)) = Len(collection)
        /\ RefreshVectorStore(FALSE, 0) = Refreshed(FALSE, collection)
        /\ \A i \in 1..Len(db) :
               AddPatientInto(collection, db[i], NoneT, FALSE) = Ok(collection)
        /\ (IdsOf(resp.before) = IdsOf(collection) =>
               \A q \in Queries, k \in 1..MaxTopK :
                   C17Scores(collection, q, k) = C17Scores(resp.before, q, k))

C17_Witness ==
    /\ C17Case
    /\ Len(collection) = 2
    /\ IdsOf(resp.before) = IdsOf(collection)
    /\ resp.before # collection

(* C18: a rebuild is all or nothing for its readers: once refresh has      *)
(* dropped the durable collection, a reader finds either the complete      *)
(* contents from before the rebuild or the complete contents after it,     *)
(* never an empty or half-filled index.                                    *)
C18_ReaderSeesCompleteIndex ==
    IsRefresh =>
        \/ collection = resp.before
        \/ IdsOf(collection) = (IF provider = "Unavailable" THEN {} ELSE C17RowIds)

-----------------------------------------------------------------------------
(* Properties of the similarity scores and of the stored metadata *)

(* C19: every hit of _query_collection and of the keyword fallback has a   *)
(* similarity_score in [0, 1], whatever distance the cosine store reports. *)
C19_ScoreInUnitInterval ==
    IsSearch =>
        \A i \in 1..Len(resp.result) :
            /\ resp.result[i].similarity_score >= 0
            /\ resp.result[i].similarity_score <= ONE

C20Stored ==
    {collection[i].metadata : i \in 1..Len(collection)}
    \cup {staging_collection[i].metadata : i \in 1..Len(staging_collection)}

C20Kinds(m) == {m[k].kind : k \in DOMAIN m}

C20IsSanitize == call.op = "sanitize"

(* C20 as stated: every mapping handed to the store has passed through     *)
(* _sanitize_metadata, so every stored value is a string, an integer, a    *)
(* float or a boolean; every non-scalar input value has become a string;   *)
(* the key set is preserved and sanitizing twice equals sanitizing once.   *)
C20_StoredScalarsOriginal ==
    /\ \A m \in C20Stored : C20Kinds(m) \subseteq {"str", "int", "float", "bool"}
    /\ C20IsSanitize =>
           /\ DOMAIN call.output = DOMAIN call.input
           /\ C20Kinds(call.output) \subseteq {"str", "int", "float", "bool"}
           /\ SanitizeMetadata(call.output) = call.output

(* C20 amended: None counts with the scalars: a None value is handed on    *)
(* unchanged; every other value that is not a string, integer, float or    *)
(* boolean has become a string, scalar values are kept as they are, the    *)
(* key set is preserved, sanitizing twice equals sanitizing once, and      *)
(* every stored mapping is one that sanitizing leaves unchanged.           *)
C20_StoredScalarsOrNone ==
    /\ \A m \in C20Stored :
           /\ C20Kinds(m) \subseteq {"str", "int", "float", "bool", "none"}
           /\ SanitizeMetadata(m) = m
    /\ C20IsSanitize =>
           /\ DOMAIN call.output = DOMAIN call.input
           /\ \A k \in DOMAIN call.input :
                  IF call.input[k].kind \in {"str", "int", "float", "bool", "none"}
                  THEN call.output[k] = call.input[k]
                  ELSE call.output[k].kind = "str"
           /\ SanitizeMetadata(call.output) = call.output

C20_Witness ==
    /\ C20IsSanitize
    /\ C20Kinds(call.input) = {"list", "none"}
    /\ \E m \in C20Stored : "document_types" \in DOMAIN m /\ m["document_types"].val = "{}"
    /\ collection # <<>>
-----
(* Window geometry of _chunk_text *)

C29Stride == call.chunk_size - call.overlap

C29Window(i) ==
    SubSeq(call.safe_text, (i - 1) * C29Stride + 1,
           Min((i - 1) * C29Stride + call.chunk_size, Len(call.safe_text)))

C29Case == ChunkDone /\ call.overlap < call.chunk_size

(* C29: with 0 <= overlap < chunk_size every chunk is non-empty and at most *)
(* chunk_size long, every chunk but the last is exactly chunk_size long,    *)
(* chunk i is the window of the sanitized text that starts                  *)
(* (i - 1) * (chunk_size - overlap) characters in, the last chunk ends at   *)
(* the end of the sanitized text, and ("ABCDEFGHIJ", 4, 1) gives            *)
(* ["ABCD", "DEFG", "GHIJ"]                                                 *)
C29_WindowGeometry ==
    C29Case =>
        /\ \A i \in 1..Len(call.chunks) :
               /\ call.chunks[i] # <<>>
               /\ Len(call.chunks[i]) <= call.chunk_size
               /\ (i < Len(call.chunks) => Len(call.chunks[i]) = call.chunk_size)
               /\ call.chunks[i] = C29Window(i)
        /\ (call.safe_text # <<>> =>
               /\ call.chunks # <<>>
               /\ (Len(call.chunks) - 1) * C29Stride
                      + Len(call.chunks[Len(call.chunks)]) = Len(call.safe_text))
        /\ (call.safe_text = <<>> => call.chunks = <<>>)
        /\ (call.text = ChunkExample /\ call.chunk_size = 4 /\ call.overlap = 1 =>
               call.chunks = << <<"A", "B", "C", "D">>, <<"D", "E", "F", "G">>,
                                <<"G", "H", "I", "J">> >>)

C29_Witness ==
    /\ C29Case
    /\ call.text = ChunkExample
    /\ call.chunks = << <<"A", "B", "C", "D">>, <<"D", "E", "F", "G">>,
                        <<"G", "H", "I", "J">> >>

-----
(* Tags of the stored entries *)

C30DistinctIds(coll) ==
    \A i, j \in 1..Len(coll) : coll[i].id = coll[j].id => i = j

(* C30: every staged entry carries type "staging_document", the batch id   *)
(* of its add as upload_batch_id and its position as chunk_index, whatever *)
(* keys the caller's metadata has, under pairwise distinct ids             *)
(* staging_<batch>_<i>; every durable entry carries type "patient_record"  *)
(* and its patient's id.                                                   *)
C30_EntriesTagged ==
    /\ \A i \in 1..Len(staging_collection) :
           /\ staging_collection[i].metadata["type"] = MStr("staging_document")
           /\ staging_collection[i].metadata["upload_batch_id"]
                  = MStr(staging_collection[i].id[2])
           /\ staging_collection[i].metadata["chunk_index"]
                  = MInt(staging_collection[i].id[3])
    /\ C30DistinctIds(staging_collection)
    /\ \A i \in 1..Len(collection) :
           /\ collection[i].metadata["type"] = MStr("patient_record")
           /\ collection[i].metadata["patient_id"] = MStr(collection[i].id[2])
    /\ C30DistinctIds(collection)

-----
(* The durable index after a rebuild *)

(* the patient ids the entries of an index belong to *)
C28Owners(coll) == {coll[i].metadata["patient_id"].val : i \in 1..Len(coll)}

C28Stored == {db[i].id : i \in 1..Len(db)}

-----
(* Chat attachments and the two indexes *)

IsAttach == resp.op = "add_chat_attachment"

C21Kept(before, after) ==
    Len(before) <= Len(after) /\ SubSeq(after, 1, Len(before)) = before

(* C21: every step other than a rebuild leaves every entry of the durable   *)
(* index in place and unchanged (it only appends), and every step, the      *)
(* rebuild included, leaves every entry of the staging index in place and   *)
(* unchanged.                                                               *)
C21_EntriesKept ==
    [][/\ (resp'.op # "refresh" => C21Kept(collection, collection'))
       /\ C21Kept(staging_collection, staging_collection')]_vars

C21_Witness ==
    /\ IsAttach
    /\ Len(collection) = 2
    /\ staging_collection # <<>>

(* C22: when POST /api/documents/attach-to-chat has succeeded for session S *)
(* and the next request is GET /api/documents/chat-attachments/S or POST    *)
(* /api/chat/message with chat_session_id S, the listing contains the       *)
(* attachment, and the message's context contains the attachment's content  *)
(* with has_context true.                                                   *)
C22_AttachmentStaysAvailable ==
    [][(/\ resp # Idle
        /\ resp.op = "attach"
        /\ resp.status = 200
        /\ resp'.op \in {"chat_attachments", "message"}
        /\ resp'.chat_session_id = resp.chat_session_id)
       => IF resp'.op = "chat_attachments"
          THEN resp'.attachments = resp.stored
          ELSE resp'.has_context /\ IsSubstring(resp.content, resp'.context)]_vars

C23Block(a) ==
    <<"\n\n--- ATTACHED FILE: ",
      IF "filename" \in DOMAIN a.metadata THEN a.metadata["filename"] ELSE "None",
      " ---\n">> \o a.content

C23Blocks(attachments) ==
    Flatten([i \in 1..Len(attachments) |-> C23Block(attachments[i])])

C23Empty(contexts, s) == s \notin DOMAIN contexts \/ contexts[s].attachments = <<>>

(* C23: add_chat_attachment(S, content, metadata) appends one attachment    *)
(* with that content and metadata to S's list and changes nothing else:     *)
(* not the durable index, the staging index, the relational store or any    *)
(* other session; every session's attached-files context is the in-order    *)
(* concatenation of one header-plus-content block per attachment; and for   *)
(* a session without attachments get_chat_context returns "" and            *)
(* get_chat_attachments returns [].                                         *)
C23_AttachmentsSeparate ==
    [][/\ (resp'.op = "add_chat_attachment" =>
              /\ collection' = collection
              /\ staging_collection' = staging_collection
              /\ db' = db
              /\ sessions' = sessions
              /\ file_processing_cache' = file_processing_cache
              /\ DOMAIN chat_contexts' = DOMAIN chat_contexts \cup {resp'.chat_session_id}
              /\ \A s \in DOMAIN chat_contexts \ {resp'.chat_session_id} :
                     chat_contexts'[s] = chat_contexts[s]
              /\ Len(chat_contexts'[resp'.chat_session_id].attachments)
                     = Len(GetChatAttachmentsOf(chat_contexts, resp'.chat_session_id)) + 1
              /\ \A i \in 1..Len(GetChatAttachmentsOf(chat_contexts, resp'.chat_session_id)) :
                     chat_contexts'[resp'.chat_session_id].attachments[i]
                         = chat_contexts[resp'.chat_session_id].attachments[i]
              /\ LET last == chat_contexts'[resp'.chat_session_id].attachments[
                                 Len(chat_contexts'[resp'.chat_session_id].attachments)]
                 IN  last.content = resp'.content /\ last.metadata = resp'.metadata)
       /\ \A s \in DOMAIN chat_contexts' :
              chat_contexts'[s].attached_files_context
                  = C23Blocks(chat_contexts'[s].attachments)
       /\ (resp'.op = "get_chat_context"
              /\ C23Empty(chat_contexts', resp'.chat_session_id)
              => resp'.value = <<>>)
       /\ (resp'.op = "get_chat_attachments"
              /\ C23Empty(chat_contexts', resp'.chat_session_id)
              => resp'.value = <<>>)]_vars

C23_Witness ==
    /\ IsAttach
    /\ DOMAIN chat_contexts = ChatSessions
    /\ Len(chat_contexts[resp.chat_session_id].attachments) = 2
    /\ chat_contexts[resp.chat_session_id].attachments[1].content
           # chat_contexts[resp.chat_session_id].attachments[2].content
    /\ collection # <<>>
    /\ staging_collection # <<>>

-----
(* ChatContextService: the session store *)

C24Ops == {"add_message", "add_attached_file", "update_context_summary"}

(* the session the call named, before and after the call *)
C24Before == sessions[resp'.session_id]

C24After == sessions'[resp'.session_id]

(* C24: add_message, add_attached_file and update_context_summary on an id *)
(* that does not exist return False and leave the whole store unchanged;   *)
(* on an existing id they return True, leave every other session and the   *)
(* other fields of that session unchanged, and append exactly one message  *)
(* or file at the end (or set the summary).                                *)
C24_OnlyThatSession ==
    [][resp'.op \in C24Ops =>
          /\ file_processing_cache' = file_processing_cache
          /\ IF resp'.session_id \notin DOMAIN sessions
             THEN resp'.result = FALSE /\ sessions' = sessions
             ELSE /\ resp'.result = TRUE
                  /\ DOMAIN sessions' = DOMAIN sessions
                  /\ \A s \in DOMAIN sessions \ {resp'.session_id} :
                         sessions'[s] = sessions[s]
                  /\ C24After.processed_file_summaries = C24Before.processed_file_summaries
                  /\ C24After.messages =
                         (IF resp'.op = "add_message"
                          THEN C24Before.messages
                               \o <<[role |-> resp'.role, content |-> resp'.message]>>
                          ELSE C24Before.messages)
                  /\ C24After.attached_files =
                         (IF resp'.op = "add_attached_file"
                          THEN C24Before.attached_files \o <<resp'.file>>
                          ELSE C24Before.attached_files)
                  /\ C24After.context_summary =
                         (IF resp'.op = "update_context_summary"
                          THEN resp'.summary
                          ELSE C24Before.context_summary)]_vars

C24_Witness ==
    /\ resp.op = "add_message"
    /\ resp.result = TRUE
    /\ DOMAIN sessions = SessionIds
    /\ Len(sessions[resp.session_id].messages) = 2
    /\ sessions[resp.session_id].messages[1] # sessions[resp.session_id].messages[2]
    /\ \E s \in SessionIds \ {resp.session_id} : sessions[s].attached_files # <<>>

(* the ids of the files of a session *)
C25FilesOf(contexts, s) ==
    {GetAttachedFilesOf(contexts, s)[i].file_id :
        i \in 1..Len(GetAttachedFilesOf(contexts, s))}

(* C25: clear_session(S) returns True exactly when S exists and then       *)
(* removes S and nothing else; afterwards get_context(S) is None,          *)
(* get_attached_files(S) is empty, add_message, add_attached_file and a    *)
(* second clear_session on S return False, and nothing attached to S       *)
(* stays retrievable: no cached summary of one of its files is returned    *)
(* by get_cached_file_summary.                                             *)
C25_ClearRemovesEverything ==
    [][resp'.op = "clear_session" =>
          /\ resp'.result = (resp'.session_id \in DOMAIN sessions)
          /\ DOMAIN sessions' = DOMAIN sessions \ {resp'.session_id}
          /\ \A s \in DOMAIN sessions' : sessions'[s] = sessions[s]
          /\ GetContextOf(sessions', resp'.session_id) = None
          /\ GetAttachedFilesOf(sessions', resp'.session_id) = <<>>
          /\ \A input \in MessageInputs :
                 ~AddMessageTo(sessions', resp'.session_id,
                               input.message, input.role).result
          /\ \A f \in FileIds, file \in FileInputs :
                 ~AddAttachedFileTo(sessions', resp'.session_id, f, file).result
          /\ ~ClearSessionIn(sessions', resp'.session_id).result
          /\ \A f \in C25FilesOf(sessions, resp'.session_id) :
                 GetCachedFileSummaryOf(file_processing_cache', f) = None]_vars

-----
(* The /chat exchange *)

IsChat == resp.op = "chat"

C26Messages(contexts, s) == IF s \in DOMAIN contexts THEN contexts[s].messages ELSE <<>>

(* the last at most SummaryWindow elements *)
C26Last(messages) ==
    [i \in 1..Min(SummaryWindow, Len(messages)) |->
        messages[Len(messages) - Min(SummaryWindow, Len(messages)) + i]]

(* C26: a /chat request that completes returns the id of a session that    *)
(* exists afterwards (the requested one when it was known, a new one       *)
(* otherwise) and leaves that session's messages extended by exactly the   *)
(* user query followed by the assistant response, its summary rebuilt from *)
(* its last at most 10 messages, and every other session as it was; this   *)
(* holds in every order in which /chat, upload, start-session and delete   *)
(* requests on the same sessions are served.                               *)
C26_ChatAppendsExchange ==
    [][resp'.op = "chat" =>
          /\ resp'.status = 200
          /\ resp'.session_id \in DOMAIN sessions'
          /\ (resp'.requested \in DOMAIN sessions => resp'.session_id = resp'.requested)
          /\ (resp'.requested \notin DOMAIN sessions =>
                 resp'.session_id \notin DOMAIN sessions)
          /\ sessions'[resp'.session_id].messages =
                 C26Messages(sessions, resp'.session_id)
                 \o <<[role |-> "user", content |-> resp'.query],
                      [role |-> "assistant", content |-> resp'.response]>>
          /\ sessions'[resp'.session_id].context_summary =
                 SummaryOf(C26Last(sessions'[resp'.session_id].messages))
          /\ \A s \in DOMAIN sessions \ {resp'.session_id} :
                 s \in DOMAIN sessions' /\ sessions'[s] = sessions[s]]_vars

C26_Witness ==
    /\ IsChat
    /\ Len(sessions[resp.session_id].messages) > SummaryWindow
    /\ \E i \in 1..Len(sessions[resp.session_id].messages) :
           sessions[resp.session_id].messages[i].content = LlmApology
    /\ sessions[resp.session_id].attached_files # <<>>

-----
(* The batch id of an upload *)

IsUpload == resp.op = "upload_multiple" /\ resp.status = 200

(* C27: when upload-multiple answers with an upload_batch_id, the staging  *)
(* index holds at least one entry whose metadata.upload_batch_id is that   *)
(* id.                                                                     *)
C27_ReturnedBatchIsStaged ==
    IsUpload =>
        \E i \in 1..Len(staging_collection) :
            staging_collection[i].metadata["upload_batch_id"] = MStr(resp.upload_batch_id)

====
